---- MODULE Spec2Model ----
(***************************************************************************)
(* wb-grep: the incremental indexing engine.                               *)
(*                                                                         *)
(* The model follows src/src/lib/indexer.ts (Indexer), the journal         *)
(* (IndexStateManager), the vector store (LanceDBStore), the chunker       *)
(* (CodeChunker), the embedder (OllamaEmbedder) and the watch loop of      *)
(* src/src/commands/watch.ts.                                              *)
(*                                                                         *)
(* An async method is a sequence of steps, one per await that really       *)
(* suspends (a store call, the embedding batch); everything the code runs  *)
(* synchronously between two such awaits is one action.                    *)
(***************************************************************************)
EXTENDS Integers, Sequences, FiniteSets, TLC

VARIABLES
    disk,            \* the working tree: filepath -> content, or Absent
    files,           \* IndexStateManager.state.files (in memory)
    dirty,           \* IndexStateManager.dirty
    stateFile,       \* the `files` map of .wb-grep/state.json on disk
    table,           \* the rows of the LanceDB table code_chunks
    calls,           \* the indexFile / deleteFile calls in progress, by slot
    pass,            \* the indexAll call in progress (Indexer.indexAll)
    lastOp,          \* history: the last Indexer operation that returned
    ops,             \* history: number of Indexer calls made by the caller
    crashes,         \* history: number of process crashes so far
    pendingChanges,  \* watch.ts: the Set of paths awaiting the debounce flush
    debounceTimer,   \* watch.ts: TRUE while the debounce timer is armed
    flushQueue,      \* watch.ts: changedFiles still to visit, by flush slot
    watcher,         \* watch.ts: "open", "closing" (SIGINT seen), "exited",
                     \* "crashed" (ended by an unhandled rejection)
    events,          \* history: number of changes of the working tree so far
    batch,           \* OllamaEmbedder.batchEmbed: the call and its configuration
    queue,           \* batchEmbed: the indexes not yet taken by a worker
    results,         \* batchEmbed: the results array
    errors,          \* batchEmbed: the errors array
    workers,         \* batchEmbed: the worker loops and their embed calls
    trail,           \* history: what happened to each text of the batch
    statePath,       \* IndexStateManager: the file at statePath, as load reads it
    lastSync,        \* IndexStateManager: state.lastSync
    now,             \* the clock Date.now() reads
    history,         \* history: the last call on the journal and what it did
    search,          \* LanceDBStore.search: the call, its filter and its rows
    chunking,        \* CodeChunker.chunkCode: the call, its file and its chunks
    walk,            \* FileSystem.getFiles: the call, its tree and its paths
    clock,           \* watch.ts: the time, in ms, since the watcher was opened
    timerDue,        \* watch.ts: the time at which the armed debounce timer is due
    flushLog,        \* history: what each flush took as changedFiles and visited
    eventLog         \* history: the add/change events seen, by path

vars == <<disk, files, dirty, stateFile, table, calls, pass, lastOp, ops, crashes,
          pendingChanges, debounceTimer, flushQueue, watcher, events,
          batch, queue, results, errors, workers, trail,
          statePath, lastSync, now, history, search, chunking, walk,
          clock, timerDue, flushLog, eventLog>>

indexerVars == <<files, dirty, stateFile, table, calls, pass, lastOp>>
watchVars == <<pendingChanges, debounceTimer, flushQueue, watcher, events>>
embedVars == <<batch, queue, results, errors, workers, trail>>
journalVars == <<statePath, lastSync, now, history>>
timerVars == <<clock, timerDue, flushLog, eventLog>>
unitVars == <<journalVars, search, chunking, walk, timerVars>>

(***************************************************************************)
(* Bounds of the model.                                                    *)
(***************************************************************************)
MaxIds == 6        \* size of the universe of chunk ids
MaxCalls == 3      \* indexFile / deleteFile calls that may be in progress
MaxOps == 3        \* Indexer calls a caller makes in one behaviour
MaxCrashes == 1    \* process crashes in one behaviour
MaxEvents == 2     \* changes of the working tree in one behaviour

(***************************************************************************)
(* Program constants (src/src/lib/constants.ts).                           *)
(***************************************************************************)
MAX_FILE_SIZE == 1024 * 1024
BINARY_SAMPLE_SIZE == 8000
DEFAULT_MAX_CHUNK_LINES == 150
DEFAULT_OVERLAP_LINES == 5
DEFAULT_MIN_CHUNK_LINES == 5
VECTOR_DIMENSIONS == 1024
DEFAULT_OLLAMA_RETRIES == 3
MAX_RETRY_DELAY_MS == 10000
batchSize == 2    \* config.indexing.batchSize (default 10, WBGREP_BATCH_SIZE)

Min(a, b) == IF a < b THEN a ELSE b
Range(s) == {s[i] : i \in DOMAIN s}

(***************************************************************************)
(* The working tree.  A content is named; its size in bytes, its number of *)
(* lines, the positions of its NUL code units and the lines that match a   *)
(* boundary pattern of its language are what the indexer looks at.         *)
(***************************************************************************)
Files == <<"a.ts", "b.ts">>
FileSet == Range(Files)
\* the files of a tree of three, in the order readdirSync lists them
WalkOrder == <<"a.ts", "b.ts", "c.ts">>
Absent == "absent"
NoFile == "nofile"

Contents == {"A", "B", "empty", "big", "bin"}
TextContents == {"A", "B"}

\* contents at the edges of the guards of indexFile: of exactly MAX_FILE_SIZE
\* bytes, with one NUL, with two NULs of which one lies past the sample, and
\* with two NULs at the first and the last position of the sample
EdgeContents == {"max", "nul1", "nulfar", "nuledge"}

Size(c) ==
    CASE c = "A" -> 120
      [] c = "B" -> 3000
      [] c = "empty" -> 0
      [] c = "big" -> MAX_FILE_SIZE + 1
      [] c = "bin" -> 64
      [] c = "max" -> MAX_FILE_SIZE
      [] c = "nul1" -> 64
      [] c = "nulfar" -> BINARY_SAMPLE_SIZE + 1000
      [] c = "nuledge" -> BINARY_SAMPLE_SIZE + 1000

Length(c) == Size(c)

LineCount(c) ==
    CASE c = "A" -> 10
      [] c = "B" -> DEFAULT_MAX_CHUNK_LINES + 1
      [] c = "empty" -> 1
      [] c = "big" -> 20000
      [] c = "bin" -> 1
      [] c = "max" -> 10
      [] c = "nul1" -> 1
      [] c = "nulfar" -> 100
      [] c = "nuledge" -> 100

\* 0-based indices of the NUL code units of c
NulPositions(c) ==
    CASE c = "bin" -> {0, 1}
      [] c = "nul1" -> {5}
      [] c = "nulfar" -> {BINARY_SAMPLE_SIZE - 1, BINARY_SAMPLE_SIZE}
      [] c = "nuledge" -> {0, BINARY_SAMPLE_SIZE - 1}
      [] OTHER -> {}

\* 0-based indices of the lines of c that match a FUNCTION_PATTERNS regex
BoundaryLines(c) == {}

PatternExts == {"ts", "tsx", "js", "jsx", "py", "java", "go", "rs", "rb",
                "php", "c", "cpp", "h"}

\* path.extname of a path or an entry name, without the dot, in lower case
Ext(f) ==
    CASE f \in {"a.ts", "b.ts", "c.ts", "g.ts", "m.ts", ".env.ts"} -> "ts"
      [] f = "x.py" -> "py"
      [] f = "app.min.js" -> "js"
      [] f = "data.csv" -> "csv"
      [] OTHER -> ""

(***************************************************************************)
(* CodeChunker (src/src/lib/chunker.ts).  A chunk is its 1-based inclusive *)
(* line range and the slice [sliceFrom, sliceTo) of the file's lines that  *)
(* its content is joined from.                                             *)
(***************************************************************************)
Chunk(ls, le, from, to) ==
    [lineStart |-> ls, lineEnd |-> le, sliceFrom |-> from, sliceTo |-> to]

RECURSIVE SortedSeq(_)
SortedSeq(S) ==
    IF S = {} THEN <<>>
    ELSE LET m == CHOOSE x \in S : \A y \in S : x <= y
         IN  <<m>> \o SortedSeq(S \ {m})

\* the window loop shared by chunkByLines and splitLargeChunk: `n` lines that
\* start at line index `base` of the file, the loop variable at `i`
RECURSIVE WindowLoop(_, _, _)
WindowLoop(i, n, base) ==
    IF i >= n THEN <<>>
    ELSE LET end == Min(i + DEFAULT_MAX_CHUNK_LINES, n)
             out == IF end - i >= DEFAULT_MIN_CHUNK_LINES
                    THEN <<Chunk(base + i + 1, base + end, base + i, base + end)>>
                    ELSE <<>>
         IN  IF end = n THEN out
             ELSE out \o WindowLoop(i + (DEFAULT_MAX_CHUNK_LINES - DEFAULT_OVERLAP_LINES),
                                    n, base)

\* a line-window chunker that stops after its first window
chunkByLinesOnce(n) ==
    <<Chunk(1, Min(DEFAULT_MAX_CHUNK_LINES, n), 0, Min(DEFAULT_MAX_CHUNK_LINES, n))>>

\* a line-window chunker whose windows do not overlap
chunkByLinesDisjoint(n) ==
    [k \in 1..((n + DEFAULT_MAX_CHUNK_LINES - 1) \div DEFAULT_MAX_CHUNK_LINES) |->
        Chunk((k - 1) * DEFAULT_MAX_CHUNK_LINES + 1,
              Min(k * DEFAULT_MAX_CHUNK_LINES, n),
              (k - 1) * DEFAULT_MAX_CHUNK_LINES,
              Min(k * DEFAULT_MAX_CHUNK_LINES, n))]

chunkByLines(n) == WindowLoop(0, n, 0)

\* a subdivision that numbers the lines from the start of the segment
splitLargeChunkUnbased(n, baseLineStart) ==
    LET w == WindowLoop(0, n, baseLineStart)
    IN  [k \in DOMAIN w |-> Chunk(w[k].lineStart - baseLineStart,
                                  w[k].lineEnd - baseLineStart,
                                  w[k].sliceFrom, w[k].sliceTo)]

splitLargeChunk(n, baseLineStart) == WindowLoop(0, n, baseLineStart)

\* detectBoundaries over `n` lines, those at the 0-based indices `marks`
\* matching a pattern of FUNCTION_PATTERNS[ext]
boundariesOf(n, marks, ext) ==
    IF ext \notin PatternExts THEN <<0>>
    ELSE <<0>> \o SortedSeq({i \in marks : i > 0 /\ i < n})

detectBoundaries(c, ext) == boundariesOf(LineCount(c), BoundaryLines(c), ext)

RECURSIVE BoundaryLoop(_, _)
BoundaryLoop(bs, i) ==
    IF i > Len(bs) - 1 THEN <<>>
    ELSE LET start == bs[i]
             end == bs[i + 1]
             out == IF end - start > DEFAULT_MAX_CHUNK_LINES
                    THEN splitLargeChunk(end - start, start)
                    ELSE IF end - start >= DEFAULT_MIN_CHUNK_LINES
                    THEN <<Chunk(start + 1, end, start, end)>>
                    ELSE <<>>
         IN  out \o BoundaryLoop(bs, i + 1)

chunkByBoundaries(n, boundaries) ==
    LET chunks == BoundaryLoop(Append(boundaries, n), 1)
    IN  IF Len(chunks) = 0 /\ n > 0 THEN chunkByLines(n) ELSE chunks

\* a chunkCode that takes a file of exactly maxChunkLines lines for a long one
chunkLinesBelowMax(n, boundaries) ==
    IF n < DEFAULT_MAX_CHUNK_LINES THEN <<Chunk(1, n, 0, n)>>
    ELSE IF Len(boundaries) > 1 THEN chunkByBoundaries(n, boundaries)
    ELSE chunkByLines(n)

\* chunkCode, lines 85-104, on `n` lines with the given boundaries
chunkLines(n, boundaries) ==
    IF n <= DEFAULT_MAX_CHUNK_LINES THEN <<Chunk(1, n, 0, n)>>
    ELSE IF Len(boundaries) > 1 THEN chunkByBoundaries(n, boundaries)
    ELSE chunkByLines(n)

chunkCode(c, filepath) ==
    chunkLines(LineCount(c), detectBoundaries(c, Ext(filepath)))

\* CodeChunker.computeHash: the SHA-256 digest, taken to be collision free
computeHash(c) == <<"sha256", c>>

(***************************************************************************)
(* FileSystem (src/src/lib/file.ts): the walker.                           *)
(***************************************************************************)
CODE_EXTENSIONS == {"ts", "tsx", "js", "jsx", "py", "md", "json"}
HiddenPaths == {".env.ts", ".cfg"}   \* entry names that begin with "."
IgnoredPaths == {"app.min.js"}       \* names a global ignore pattern matches

\* isCodeFile, lines 172-179
specialFiles == {"dockerfile", "makefile", "cmakelists.txt", "gemfile", "rakefile"}

toLowerCase(name) == IF name = "Makefile" THEN "makefile" ELSE name

isHidden(f) == f \in HiddenPaths

\* isIgnored in a tree without ignore files: f is a name at the root
isIgnored(f) == f \in IgnoredPaths

isCodeFile(f) == Ext(f) \in CODE_EXTENSIONS \/ toLowerCase(f) \in specialFiles

\* FileSystem.getFiles over the tree `d`, in the walker's emission order
getFiles(d) ==
    SelectSeq(WalkOrder, LAMBDA f : f \in DOMAIN d /\ d[f] # Absent /\ ~isHidden(f)
                                    /\ ~isIgnored(f) /\ isCodeFile(f))

(***************************************************************************)
(* IndexStateManager (the journal).  `files` and `stateFile` are maps from *)
(* a set of paths to entries {hash, chunkIds, chunkCount}; lastModified is *)
(* left out.                                                               *)
(***************************************************************************)
NoFiles == [f \in {} |-> 0]

Entry(hash, chunkIds, chunkCount) ==
    [hash |-> hash, chunkIds |-> chunkIds, chunkCount |-> chunkCount]

\* a journal that records nothing
setFileDropped(fs, filepath, metadata) == fs

\* state.files[filepath] = metadata
setFile(fs, filepath, metadata) ==
    [g \in DOMAIN fs \cup {filepath} |-> IF g = filepath THEN metadata ELSE fs[g]]

\* a journal that forgets nothing
removeFileKept(fs, filepath) == fs

\* delete state.files[filepath]
removeFile(fs, filepath) == [g \in DOMAIN fs \ {filepath} |-> fs[g]]

\* a change detector that compares nothing: every file counts as changed
hasFileChangedAlways(fs, filepath, hash) == TRUE

hasFileChanged(fs, filepath, hash) ==
    filepath \notin DOMAIN fs \/ fs[filepath].hash # hash

\* IndexStateManager.save: what state.json holds after save()
saved(fs, d, sf) == IF d THEN fs ELSE sf

(***************************************************************************)
(* LanceDBStore: a row is {id, filepath, hash, chunk}; `chunk` stands for  *)
(* content, lineStart and lineEnd.                                         *)
(***************************************************************************)
Ids == 1..MaxIds

\* lengths of the `embedding` array in a 2xx response
ResponseDims == {VECTOR_DIMENSIONS, 768}

\* the slots of `results`: not written, the embedding of text `i` with `d`
\* components, or Array(dimensions).fill(0)
Hole == [kind |-> "hole", dim |-> 0, of |-> 0]
Embedding(i, d) == [kind |-> "embedding", dim |-> d, of |-> i]
ZeroVector == [kind |-> "zero", dim |-> VECTOR_DIMENSIONS, of |-> 0]

\* what batchEmbed can return for n texts with a concurrency of 1 or more
\* (logger.ts 329-363): every slot holds the embedding of its text or the
\* zero vector, and not every text failed
BatchReturns(n) ==
    {vs \in [1..n -> {ZeroVector} \cup
                      {Embedding(i, d) : i \in 1..n, d \in ResponseDims}] :
        /\ \A i \in 1..n : vs[i] = ZeroVector \/ vs[i].of = i
        /\ \E i \in 1..n : vs[i] # ZeroVector}

Row(id, filepath, hash, chunk, vector) ==
    [id |-> id, filepath |-> filepath, hash |-> hash, chunk |-> chunk,
     vector |-> vector]

\* a delete that leaves no row once it is given an id
deleteByIdsEveryRow(t, ids) == IF ids = <<>> THEN t ELSE {}

deleteByIds(t, ids) == {r \in t : r.id \notin Range(ids)}

addChunks(t, records) == t \cup Range(records)

RowsOf(t, filepath) == {r \in t : r.filepath = filepath}
RowIds(t, filepath) == {r.id : r \in RowsOf(t, filepath)}

(***************************************************************************)
(* Indexer.indexFile, step by step.  A call lives in a slot of `calls`.    *)
(* pc: "deleting" (awaiting deleteByIds), "embedding" (awaiting            *)
(* batchEmbed), "adding" (awaiting addChunks, rows not yet written),       *)
(* "added" (rows written, the continuation has not run), "returned".       *)
(* vectors is the array batchEmbed returned.  before, prior, embeds,       *)
(* storeOps, orphans and rowsBefore are history fields.                    *)
(***************************************************************************)
Slots == 1..MaxCalls

NoResult == [chunks |-> 0, skipped |-> FALSE, error |-> ""]
\* history: what the last indexAll before this operation left, kept across a
\* clear for as long as the tree is not edited
NoFirst == [done |-> FALSE, failed |-> FALSE, counts |-> NoFiles]

NoPrior ==
    [op |-> "none", filepath |-> NoFile, force |-> FALSE, error |-> FALSE,
     first |-> NoFirst]

Idle ==
    [op |-> "idle", pc |-> "idle", owner |-> "", filepath |-> NoFile,
     force |-> FALSE, content |-> Absent, hash |-> <<>>, hasExisting |-> FALSE,
     oldIds |-> <<>>, chunkIds |-> <<>>, result |-> NoResult,
     before |-> NoFiles, prior |-> NoPrior, embeds |-> 0, storeOps |-> 0,
     orphans |-> FALSE, vectors |-> <<>>, rowsBefore |-> {}]

EntryIds(fs) == UNION {Range(fs[f].chunkIds) : f \in DOMAIN fs}

UsedIds ==
    {r.id : r \in table} \cup EntryIds(files) \cup EntryIds(stateFile)
    \cup UNION {Range(calls[s].oldIds) \cup Range(calls[s].chunkIds)
                \cup EntryIds(calls[s].before) : s \in Slots}

\* uuidv4, n times: ids that occur nowhere in the state
uuidv4(n) == SubSeq(SortedSeq(Ids \ UsedIds), 1, n)

\* process.exit (watch.ts line 136), or the end of the process on a rejected
\* promise nobody handles, ends every pending continuation
Running == watcher \notin {"exited", "crashed"}

\* a binary check that takes one NUL for binary
isBinaryContentAnyNul(c) == NulPositions(c) # {}

isBinaryContent(c) ==
    LET sampleSize == Min(Length(c), BINARY_SAMPLE_SIZE)
    IN  Cardinality({p \in NulPositions(c) : p < sampleSize}) > 1

Returned(call, chunks, skipped, error) ==
    [call EXCEPT !.pc = "returned",
                 !.result = [chunks |-> chunks, skipped |-> skipped, error |-> error]]

\* an indexFile that reads the journal entry and goes on without the delete
AfterHashCheckNoDelete(fs, call) ==
    IF Len(chunkCode(call.content, call.filepath)) = 0
    THEN Returned(call, 0, TRUE, "")
    ELSE [call EXCEPT !.pc = "embedding", !.embeds = call.embeds + 1,
                      !.hasExisting = call.filepath \in DOMAIN fs,
                      !.oldIds = IF call.filepath \in DOMAIN fs
                                 THEN fs[call.filepath].chunkIds ELSE <<>>]

\* lines 119-132, after the hash check: getFile, then deleteByIds or batchEmbed
AfterHashCheck(fs, call) ==
    IF call.filepath \in DOMAIN fs
    THEN [call EXCEPT !.pc = "deleting", !.hasExisting = TRUE,
                      !.oldIds = fs[call.filepath].chunkIds,
                      !.storeOps = call.storeOps + 1]
    ELSE IF Len(chunkCode(call.content, call.filepath)) = 0
    THEN Returned(call, 0, TRUE, "")
    ELSE [call EXCEPT !.pc = "embedding", !.embeds = call.embeds + 1]

\* lines 91-122: the synchronous head of indexFile, up to its first await, run
\* with the journal map `fs` and the table `t`
StartIndexFile(fs, t, filepath, force, owner) ==
    LET c == disk[filepath]
        call == [Idle EXCEPT !.op = "indexFile", !.owner = owner,
                             !.filepath = filepath, !.force = force,
                             !.content = c, !.before = fs,
                             !.rowsBefore = RowsOf(t, filepath),
                             !.prior = IF lastOp.filepath = filepath
                                       THEN lastOp ELSE NoPrior,
                             !.orphans = (RowIds(t, filepath) \
                                 (IF filepath \in DOMAIN fs
                                  THEN Range(fs[filepath].chunkIds)
                                  ELSE {})) # {}]
    IN  IF c = Absent THEN Returned(call, 0, TRUE, "ENOENT")
        ELSE IF Size(c) > MAX_FILE_SIZE THEN Returned(call, 0, TRUE, "")
        ELSE IF Size(c) = 0 THEN Returned(call, 0, TRUE, "")
        ELSE IF isBinaryContent(c) THEN Returned(call, 0, TRUE, "")
        ELSE LET hash == computeHash(c)
             IN  IF ~force /\ ~hasFileChanged(fs, filepath, hash)
                 THEN Returned([call EXCEPT !.hash = hash], 0, TRUE, "")
                 ELSE AfterHashCheck(fs, [call EXCEPT !.hash = hash])

\* line 121 resolves: the rows are gone; lines 124-132 run
DeleteByIdsDone(s) ==
    /\ Running
    /\ calls[s].op = "indexFile" /\ calls[s].pc = "deleting"
    /\ table' = deleteByIds(table, calls[s].oldIds)
    /\ calls' = [calls EXCEPT ![s] =
           IF Len(chunkCode(calls[s].content, calls[s].filepath)) = 0
           THEN Returned(calls[s], 0, TRUE, "")
           ELSE [calls[s] EXCEPT !.pc = "embedding",
                                 !.embeds = calls[s].embeds + 1]]
    /\ UNCHANGED <<disk, files, dirty, stateFile, pass, lastOp, ops, crashes, watchVars>>
    /\ UNCHANGED <<embedVars, unitVars>>

\* line 121 rejects: the catch of lines 159-163
DeleteByIdsFail(s) ==
    /\ Running
    /\ calls[s].op = "indexFile" /\ calls[s].pc = "deleting"
    /\ calls' = [calls EXCEPT ![s] = Returned(calls[s], 0, TRUE, "delete failed")]
    /\ UNCHANGED <<disk, files, dirty, stateFile, table, pass, lastOp, ops, crashes,
                   watchVars>>
    /\ UNCHANGED <<embedVars, unitVars>>

\* line 129 resolves; lines 134-149 mint the ids and call addChunks
BatchEmbedDone(s) ==
    LET n == Len(chunkCode(calls[s].content, calls[s].filepath))
    IN  /\ Running
        /\ calls[s].op = "indexFile" /\ calls[s].pc = "embedding"
        /\ Cardinality(Ids \ UsedIds) >= n
        /\ \E vs \in BatchReturns(n) :
             calls' = [calls EXCEPT ![s] =
               [calls[s] EXCEPT !.pc = "adding", !.chunkIds = uuidv4(n),
                                !.vectors = vs,
                                !.storeOps = calls[s].storeOps + 1]]
        /\ UNCHANGED <<disk, files, dirty, stateFile, table, pass, lastOp, ops, crashes,
                       watchVars>>
        /\ UNCHANGED <<embedVars, unitVars>>

\* line 129 rejects: every embedding of the batch failed
BatchEmbedFail(s) ==
    /\ Running
    /\ calls[s].op = "indexFile" /\ calls[s].pc = "embedding"
    /\ calls' = [calls EXCEPT ![s] =
           Returned(calls[s], 0, TRUE, "All embeddings failed")]
    /\ UNCHANGED <<disk, files, dirty, stateFile, table, pass, lastOp, ops, crashes,
                   watchVars>>
    /\ UNCHANGED <<embedVars, unitVars>>

\* records for the chunks that were embedded only
RecordsEmbedded(call) ==
    LET all == [i \in DOMAIN call.chunkIds |->
                   Row(call.chunkIds[i], call.filepath, call.hash,
                       chunkCode(call.content, call.filepath)[i],
                       call.vectors[i])]
        embedded(r) == r.vector.kind = "embedding"
    IN  SelectSeq(all, embedded)

\* the records of lines 135-147
Records(call) ==
    [i \in DOMAIN call.chunkIds |->
        Row(call.chunkIds[i], call.filepath, call.hash,
            chunkCode(call.content, call.filepath)[i], call.vectors[i])]

\* table.add of line 482 writes the rows
AddChunksCommit(s) ==
    /\ Running
    /\ calls[s].op = "indexFile" /\ calls[s].pc = "adding"
    /\ table' = addChunks(table, Records(calls[s]))
    /\ calls' = [calls EXCEPT ![s] = [calls[s] EXCEPT !.pc = "added"]]
    /\ UNCHANGED <<disk, files, dirty, stateFile, pass, lastOp, ops, crashes, watchVars>>
    /\ UNCHANGED <<embedVars, unitVars>>

\* line 149 rejects
AddChunksFail(s) ==
    /\ Running
    /\ calls[s].op = "indexFile" /\ calls[s].pc = "adding"
    /\ calls' = [calls EXCEPT ![s] = Returned(calls[s], 0, TRUE, "add failed")]
    /\ UNCHANGED <<disk, files, dirty, stateFile, table, pass, lastOp, ops, crashes,
                   watchVars>>
    /\ UNCHANGED <<embedVars, unitVars>>

\* line 149 resolves; lines 151-158: setFile and the result
AddChunksReturn(s) ==
    /\ Running
    /\ calls[s].op = "indexFile" /\ calls[s].pc = "added"
    /\ files' = setFile(files, calls[s].filepath,
                        Entry(calls[s].hash, calls[s].chunkIds,
                              Len(chunkCode(calls[s].content, calls[s].filepath))))
    /\ dirty' = TRUE
    /\ calls' = [calls EXCEPT ![s] =
           Returned(calls[s], Len(chunkCode(calls[s].content, calls[s].filepath)),
                    FALSE, "")]
    /\ UNCHANGED <<disk, stateFile, table, pass, lastOp, ops, crashes, watchVars>>
    /\ UNCHANGED <<embedVars, unitVars>>

(***************************************************************************)
(* Indexer.deleteFile (lines 204-211).                                     *)
(***************************************************************************)
StartDeleteFile(filepath, owner) ==
    LET call == [Idle EXCEPT !.op = "deleteFile", !.owner = owner,
                             !.filepath = filepath, !.before = files]
    IN  IF filepath \in DOMAIN files
        THEN [call EXCEPT !.pc = "deleting", !.hasExisting = TRUE,
                          !.oldIds = files[filepath].chunkIds,
                          !.storeOps = 1]
        ELSE Returned(call, 0, FALSE, "")

\* line 207 resolves; lines 208-209: the entry is removed and the journal saved
DeleteFileDone(s) ==
    /\ Running
    /\ calls[s].op = "deleteFile" /\ calls[s].pc = "deleting"
    /\ table' = deleteByIds(table, calls[s].oldIds)
    /\ files' = removeFile(files, calls[s].filepath)
    /\ stateFile' = saved(files', dirty \/ calls[s].filepath \in DOMAIN files,
                          stateFile)
    /\ dirty' = FALSE
    /\ calls' = [calls EXCEPT ![s] = Returned(calls[s], 0, FALSE, "")]
    /\ UNCHANGED <<disk, pass, lastOp, ops, crashes, watchVars>>
    /\ UNCHANGED <<embedVars, unitVars>>

\* line 207 rejects: deleteFile rejects
DeleteFileFail(s) ==
    /\ calls[s].op = "deleteFile" /\ calls[s].pc = "deleting"
    /\ calls' = [calls EXCEPT ![s] = Returned(calls[s], 0, FALSE, "delete failed")]
    /\ UNCHANGED <<disk, files, dirty, stateFile, table, pass, lastOp, ops, crashes,
                   watchVars>>
    /\ UNCHANGED <<embedVars, unitVars>>

(***************************************************************************)
(* The Indexer driven by one caller at a time: every call is awaited       *)
(* before the next is made, and the tree is edited between calls.          *)
(***************************************************************************)
NoStats == [indexed |-> 0, skipped |-> 0, failed |-> 0, totalChunks |-> 0]

\* inserted, journaled and errored are history: the rows the calls of the
\* pass added to the table, the files whose journal entry they set, and the
\* number of results that carried an error
IdlePass ==
    [op |-> "idle", pc |-> "idle", clear |-> FALSE, list |-> <<>>, i |-> 0,
     stats |-> NoStats, embeds |-> 0, prior |-> NoPrior,
     inserted |-> 0, journaled |-> {}, errored |-> 0]

Quiescent == pass.op = "idle" /\ \A s \in Slots : calls[s].op = "idle"

Done(op, filepath, force, error) ==
    [op |-> op, filepath |-> filepath, force |-> force, error |-> error,
     first |-> NoFirst]

\* the chunkCount of every journal entry
chunkCounts(fs) == [f \in DOMAIN fs |-> fs[f].chunkCount]

\* the tree changes: a file is written, created or removed
Edit(f, c) ==
    /\ Quiescent
    /\ events < MaxEvents
    /\ events' = events + 1
    /\ c # disk[f]
    /\ disk' = [disk EXCEPT ![f] = c]
    /\ lastOp' = IF lastOp.filepath = f \/ lastOp.op = "indexAll"
                 THEN NoPrior ELSE [lastOp EXCEPT !.first = NoFirst]
    /\ UNCHANGED <<files, dirty, stateFile, table, calls, pass, ops, crashes,
                   pendingChanges, debounceTimer, flushQueue, watcher>>
    /\ UNCHANGED <<embedVars, unitVars>>

ApiIndexFile(f, force) ==
    /\ Quiescent
    /\ ops < MaxOps
    /\ ops' = ops + 1
    /\ calls' = [calls EXCEPT ![1] = StartIndexFile(files, table, f, force, "api")]
    /\ UNCHANGED <<disk, files, dirty, stateFile, table, pass, lastOp, crashes,
                   watchVars>>
    /\ UNCHANGED <<embedVars, unitVars>>

ApiDeleteFile(f) ==
    /\ Quiescent
    /\ ops < MaxOps
    /\ ops' = ops + 1
    /\ calls' = [calls EXCEPT ![1] = StartDeleteFile(f, "api")]
    /\ UNCHANGED <<disk, files, dirty, stateFile, table, pass, lastOp, crashes,
                   watchVars>>
    /\ UNCHANGED <<embedVars, unitVars>>

\* the awaited promise settles and the caller goes on
ApiReturn(s) ==
    /\ calls[s].owner = "api" /\ calls[s].pc = "returned"
    /\ lastOp' = Done(calls[s].op, calls[s].filepath, calls[s].force,
                      calls[s].result.error # "")
    /\ calls' = [calls EXCEPT ![s] = Idle]
    /\ UNCHANGED <<disk, files, dirty, stateFile, table, pass, ops, crashes, watchVars>>
    /\ UNCHANGED <<embedVars, unitVars>>

(***************************************************************************)
(* Indexer.indexAll (lines 166-202) and Indexer.clear (lines 234-238).     *)
(* pass.i is the 1-based position in pass.list of the file being indexed.  *)
(***************************************************************************)
\* lines 172-184 or the next round of the loop: index list[i], or, past the
\* end of the list, the save of line 200
PassGoto(p, i, fs, t, d, sf) ==
    IF i <= Len(p.list)
    THEN /\ pass' = [p EXCEPT !.pc = "loop", !.i = i]
         /\ calls' = [calls EXCEPT ![1] =
                StartIndexFile(fs, t, p.list[i], p.clear, "pass")]
         /\ stateFile' = sf
         /\ dirty' = d
    ELSE /\ pass' = [p EXCEPT !.pc = "done", !.i = i]
         /\ calls' = [calls EXCEPT ![1] = Idle]
         /\ stateFile' = saved(fs, d, sf)
         /\ dirty' = FALSE

ApiIndexAll(clear) ==
    /\ Quiescent
    /\ ops < MaxOps
    /\ ops' = ops + 1
    /\ LET p == [IdlePass EXCEPT !.op = "indexAll", !.clear = clear,
                                 !.prior = lastOp]
       IN  IF clear
           THEN /\ pass' = [p EXCEPT !.pc = "clearing"]
                /\ UNCHANGED <<calls, stateFile, dirty>>
           ELSE PassGoto([p EXCEPT !.list = getFiles(disk)], 1, files, table,
                         dirty, stateFile)
    /\ UNCHANGED <<disk, files, table, lastOp, crashes, watchVars>>
    /\ UNCHANGED <<embedVars, unitVars>>

\* line 168 resolves: the table is empty; line 169 empties the journal map
IndexAllCleared ==
    /\ pass.op = "indexAll" /\ pass.pc = "clearing"
    /\ table' = {}
    /\ files' = NoFiles
    /\ PassGoto([pass EXCEPT !.list = getFiles(disk)], 1, NoFiles, {}, TRUE,
                stateFile)
    /\ UNCHANGED <<disk, lastOp, ops, crashes, watchVars>>
    /\ UNCHANGED <<embedVars, unitVars>>

\* line 168 rejects: indexAll rejects
IndexAllClearFail ==
    /\ pass.op = "indexAll" /\ pass.pc = "clearing"
    /\ pass' = IdlePass
    /\ lastOp' = Done("indexAll", NoFile, TRUE, TRUE)
    /\ UNCHANGED <<disk, files, dirty, stateFile, table, calls, ops, crashes, watchVars>>
    /\ UNCHANGED <<embedVars, unitVars>>

\* a loop that saves at its end only
saveDueNever(i) == FALSE

\* line 195, with i + 1 the 1-based position of the file just indexed
saveDue(i) == i % batchSize = 0

\* a tally that looks at `skipped` before it looks at `error`
countResultSkippedFirst(st, r) ==
    IF r.skipped THEN [st EXCEPT !.skipped = st.skipped + 1]
    ELSE IF r.error # "" THEN [st EXCEPT !.failed = st.failed + 1]
    ELSE [st EXCEPT !.indexed = st.indexed + 1,
                    !.totalChunks = st.totalChunks + r.chunks]

\* lines 186-193: the result of one file is added to the stats
countResult(st, r) ==
    IF r.error # "" THEN [st EXCEPT !.failed = st.failed + 1]
    ELSE IF r.skipped THEN [st EXCEPT !.skipped = st.skipped + 1]
    ELSE [st EXCEPT !.indexed = st.indexed + 1,
                    !.totalChunks = st.totalChunks + r.chunks]

\* line 184 resolves: lines 186-197, then the next round or line 200
IndexAllCollect(s) ==
    /\ pass.op = "indexAll" /\ pass.pc = "loop"
    /\ calls[s].owner = "pass" /\ calls[s].pc = "returned"
    /\ LET r == calls[s].result
           stats == countResult(pass.stats, r)
           f == calls[s].filepath
       IN  PassGoto([pass EXCEPT !.stats = stats,
                                 !.embeds = pass.embeds + calls[s].embeds,
                                 !.inserted = pass.inserted
                                     + Cardinality(RowsOf(table, f) \ calls[s].rowsBefore),
                                 !.journaled =
                                     IF f \in DOMAIN files /\ (f \in DOMAIN calls[s].before =>
                                                                files[f] # calls[s].before[f])
                                     THEN pass.journaled \cup {f} ELSE pass.journaled,
                                 !.errored = pass.errored
                                     + (IF r.error # "" THEN 1 ELSE 0)],
                    pass.i + 1, files, table,
                    IF saveDue(pass.i) THEN FALSE ELSE dirty,
                    IF saveDue(pass.i) THEN saved(files, dirty, stateFile)
                    ELSE stateFile)
    /\ UNCHANGED <<disk, files, table, lastOp, ops, crashes, watchVars>>
    /\ UNCHANGED <<embedVars, unitVars>>

\* indexAll resolves with its stats
IndexAllReturn ==
    /\ pass.op = "indexAll" /\ pass.pc = "done"
    /\ lastOp' = [Done("indexAll", NoFile, pass.clear, pass.stats.failed > 0)
                     EXCEPT !.first = [done |-> TRUE, failed |-> pass.stats.failed > 0,
                                       counts |-> chunkCounts(files)]]
    /\ pass' = IdlePass
    /\ UNCHANGED <<disk, files, dirty, stateFile, table, calls, ops, crashes, watchVars>>
    /\ UNCHANGED <<embedVars, unitVars>>

ApiClear ==
    /\ Quiescent
    /\ ops < MaxOps
    /\ ops' = ops + 1
    /\ pass' = [IdlePass EXCEPT !.op = "clear", !.pc = "clearing"]
    /\ UNCHANGED <<disk, files, dirty, stateFile, table, calls, lastOp, crashes,
                   watchVars>>
    /\ UNCHANGED <<embedVars, unitVars>>

\* line 235 resolves; lines 236-237
ClearDone ==
    /\ pass.op = "clear" /\ pass.pc = "clearing"
    /\ table' = {}
    /\ files' = NoFiles
    /\ stateFile' = saved(NoFiles, TRUE, stateFile)
    /\ dirty' = FALSE
    /\ pass' = IdlePass
    /\ lastOp' = [Done("clear", NoFile, FALSE, FALSE) EXCEPT !.first = lastOp.first]
    /\ UNCHANGED <<disk, calls, ops, crashes, watchVars>>
    /\ UNCHANGED <<embedVars, unitVars>>

\* line 235 rejects
ClearFail ==
    /\ pass.op = "clear" /\ pass.pc = "clearing"
    /\ pass' = IdlePass
    /\ lastOp' = Done("clear", NoFile, FALSE, TRUE)
    /\ UNCHANGED <<disk, files, dirty, stateFile, table, calls, ops, crashes, watchVars>>
    /\ UNCHANGED <<embedVars, unitVars>>

\* no batchEmbed call is modelled on its own
NoBatch == [pc |-> "none", n |-> 0, concurrency |-> 0, retries |-> 0, error |-> <<>>]

IdleEmbed ==
    /\ batch = NoBatch
    /\ queue = <<>>
    /\ results = <<>>
    /\ errors = <<>>
    /\ workers = <<>>
    /\ trail = <<>>

IdleWatch ==
    /\ pendingChanges = <<>>
    /\ debounceTimer = FALSE
    /\ flushQueue = [s \in Slots |-> <<>>]
    /\ watcher = "off"
    /\ events = 0

\* the journal file as load() finds it: its kind and the lastSync it records
\* (its `files` map is stateFile); not modelled outside the journal's own calls
JournalFile(kind, sync) == [kind |-> kind, lastSync |-> sync]

NoHistory ==
    [op |-> "none", filepath |-> NoFile, threw |-> FALSE, mutated |-> FALSE,
     mutatedBefore |-> FALSE, fileBefore |-> <<JournalFile("missing", 0), NoFiles>>,
     lastSyncBefore |-> 0, filesBefore |-> NoFiles]

IdleJournal ==
    /\ statePath = JournalFile("missing", 0)
    /\ lastSync = 0
    /\ now = 0
    /\ history = NoHistory

\* no search, chunkCode or getFiles call is modelled on its own
NoCall == [pc |-> "none"]

\* no flush has run in the slot
NoFlush == [changedFiles |-> <<>>, visited |-> <<>>, indexed |-> <<>>,
            startedAt |-> 0, lastEventAt |-> 0, arrived |-> <<>>,
            takenBefore |-> <<>>]

\* no add/change event has been seen: per path, the number of events so far
\* (arrived) and that number when the path was last taken by a flush (taken)
NoEvents ==
    [lastAt |-> 0, arrived |-> [f \in {} |-> 0], taken |-> [f \in {} |-> 0]]

\* the debounce timer is not modelled with its time
IdleTimer ==
    /\ clock = 0
    /\ timerDue = 0
    /\ flushLog = <<>>
    /\ eventLog = NoEvents

IdleUnits ==
    /\ IdleJournal
    /\ search = NoCall
    /\ chunking = NoCall
    /\ walk = NoCall
    /\ IdleTimer

\* after the constructor and initialize(): no journal, an empty table
Init ==
    /\ disk = [f \in FileSet |-> Absent]
    /\ files = NoFiles
    /\ dirty = FALSE
    /\ stateFile = NoFiles
    /\ table = {}
    /\ calls = [s \in Slots |-> Idle]
    /\ pass = IdlePass
    /\ lastOp = NoPrior
    /\ ops = 0
    /\ crashes = 0
    /\ IdleWatch
    /\ IdleEmbed
    /\ IdleUnits

CallStep ==
    \E s \in Slots :
        \/ DeleteByIdsDone(s)
        \/ DeleteByIdsFail(s)
        \/ BatchEmbedDone(s)
        \/ BatchEmbedFail(s)
        \/ AddChunksCommit(s)
        \/ AddChunksFail(s)
        \/ AddChunksReturn(s)
        \/ DeleteFileDone(s)
        \/ DeleteFileFail(s)

Next ==
    \/ \E f \in FileSet, c \in Contents \cup {Absent} : Edit(f, c)
    \/ \E f \in FileSet, force \in BOOLEAN : ApiIndexFile(f, force)
    \/ \E f \in FileSet : ApiDeleteFile(f)
    \/ \E clear \in BOOLEAN : ApiIndexAll(clear)
    \/ ApiClear
    \/ CallStep
    \/ \E s \in Slots : ApiReturn(s)
    \/ IndexAllCleared
    \/ IndexAllClearFail
    \/ \E s \in Slots : IndexAllCollect(s)
    \/ IndexAllReturn
    \/ ClearDone
    \/ ClearFail

Spec == Init /\ [][Next]_vars

(***************************************************************************)
(* Properties of the Indexer under one caller (Spec).                      *)
(***************************************************************************)
EntryOf(fs, f) == IF f \in DOMAIN fs THEN <<fs[f]>> ELSE <<>>

ReturnedIndexFile(s) == calls[s].op = "indexFile" /\ calls[s].pc = "returned"

\* the call returned at the hash check of line 115
SkippedOnHash(call) ==
    /\ call.hash # <<>>
    /\ call.result.skipped /\ call.result.error = ""
    /\ call.embeds = 0 /\ call.storeOps = 0

\* the call neither embedded nor touched the store, and the entry of its file
\* is what it was
NoOp(call) ==
    /\ call.result.skipped
    /\ call.embeds = 0 /\ call.storeOps = 0
    /\ EntryOf(files, call.filepath) = EntryOf(call.before, call.filepath)

\* C1: at every quiescent state, for every path in the journal, the ids of the
\* store rows of that path are the entry's chunkIds, chunkCount is their number
\* and every such row carries the entry's hash.
C1_JournalMatchesStore ==
    Quiescent =>
        \A f \in DOMAIN files :
            /\ RowIds(table, f) = Range(files[f].chunkIds)
            /\ files[f].chunkCount = Len(files[f].chunkIds)
            /\ \A r \in RowsOf(table, f) : r.hash = files[f].hash

\* C3, as stated: the second of two consecutive indexFile(f, false) calls on an
\* unchanged file is a no-op that returns skipped, and an indexAll that follows
\* an indexAll over an unchanged tree makes no embedding call.
C3_SecondCallNoOp ==
    /\ \A s \in Slots :
           ( /\ ReturnedIndexFile(s) /\ ~calls[s].force
             /\ calls[s].prior.op = "indexFile" /\ ~calls[s].prior.force )
           => NoOp(calls[s])
    /\ ( /\ pass.op = "indexAll" /\ pass.pc = "done" /\ ~pass.clear
         /\ pass.prior.op = "indexAll" )
       => pass.embeds = 0

\* C3, amended: the same, when the first call returned no error (the first
\* indexAll reported no failed file).
C3_SecondCallNoOpAfterSuccess ==
    /\ \A s \in Slots :
           ( /\ ReturnedIndexFile(s) /\ ~calls[s].force
             /\ calls[s].prior.op = "indexFile" /\ ~calls[s].prior.force
             /\ ~calls[s].prior.error )
           => NoOp(calls[s]) /\ calls[s].result.error = ""
    /\ ( /\ pass.op = "indexAll" /\ pass.pc = "done" /\ ~pass.clear
         /\ pass.prior.op = "indexAll" /\ ~pass.prior.error )
       => pass.embeds = 0

\* C3 witness: a second indexFile(f, false) on a file the first call indexed
\* has returned at the hash check.
C3_Witness ==
    \E s \in Slots :
        /\ ReturnedIndexFile(s) /\ ~calls[s].force
        /\ calls[s].prior.op = "indexFile" /\ ~calls[s].prior.force
        /\ ~calls[s].prior.error
        /\ calls[s].filepath \in DOMAIN files
        /\ SkippedOnHash(calls[s])

\* C4: an indexFile that returns an error leaves the journal as it was before
\* the call, and the next indexFile(f, false) on the same content does not skip
\* on hash equality, whatever the force flag of the failed call.
C4_ErrorLeavesRetry ==
    \A s \in Slots :
        /\ (ReturnedIndexFile(s) /\ calls[s].result.error # "")
           => files = calls[s].before
        /\ ( /\ ReturnedIndexFile(s) /\ ~calls[s].force
             /\ calls[s].prior.op = "indexFile" /\ calls[s].prior.error )
           => ~SkippedOnHash(calls[s])

\* C5: after indexFile(f) returns without an error, every store row of f
\* carries the hash of f's content on disk.
C5_NoStaleRows ==
    \A s \in Slots :
        (ReturnedIndexFile(s) /\ calls[s].result.error = "")
        => \A r \in RowsOf(table, calls[s].filepath) :
               r.hash = computeHash(disk[calls[s].filepath])

(***************************************************************************)
(* The index command, run again after a crash.  The process dies at any    *)
(* point; the table and state.json are what is on disk at that moment.     *)
(* The next process constructs the Indexer and runs initialize(), whose    *)
(* IndexStateManager.load reads state.json.                                *)
(***************************************************************************)
load(sf) == sf

Crash ==
    /\ crashes < MaxCrashes
    /\ crashes' = crashes + 1
    /\ calls' = [s \in Slots |-> Idle]
    /\ pass' = IdlePass
    /\ files' = load(stateFile)
    /\ dirty' = FALSE
    /\ lastOp' = NoPrior
    /\ UNCHANGED <<disk, stateFile, table, ops, watchVars>>
    /\ UNCHANGED <<embedVars, unitVars>>

NextCrash ==
    \/ \E f \in FileSet, c \in Contents \cup {Absent} : Edit(f, c)
    \/ \E clear \in BOOLEAN : ApiIndexAll(clear)
    \/ \E s \in Slots :
        \/ DeleteByIdsDone(s)
        \/ DeleteByIdsFail(s)
        \/ BatchEmbedDone(s)
        \/ BatchEmbedFail(s)
        \/ AddChunksCommit(s)
        \/ AddChunksFail(s)
        \/ AddChunksReturn(s)
    \/ IndexAllCleared
    \/ IndexAllClearFail
    \/ \E s \in Slots : IndexAllCollect(s)
    \/ IndexAllReturn
    \/ Crash

SpecCrash == Init /\ [][NextCrash]_vars

\* the guards of lines 94-111 let the content through
Eligible(c) ==
    c # Absent /\ Size(c) <= MAX_FILE_SIZE /\ Size(c) # 0 /\ ~isBinaryContent(c)

\* the chunks of f's content on disk that the table holds
ChunksInStore(f) ==
    {r.chunk : r \in {x \in RowsOf(table, f) : x.hash = computeHash(disk[f])}}

\* C6: after a crash that left rows of a file the journal does not know, the
\* next reconcile of that file that completes leaves exactly the rows of the
\* file's journal entry in the store.
C6_OrphansHealed ==
    \A s \in Slots :
        ( /\ ReturnedIndexFile(s) /\ crashes > 0 /\ calls[s].orphans
          /\ calls[s].result.error = "" /\ ~calls[s].result.skipped )
        => RowIds(table, calls[s].filepath)
               = Range(files[calls[s].filepath].chunkIds)

\* C7: after a crash and a restart, when an indexAll without clear has gone
\* through with no failed file, every eligible file the walker emitted has the
\* chunks of its content in the store.
C7_IndexAllAfterCrash ==
    ( /\ pass.op = "indexAll" /\ pass.pc = "done" /\ ~pass.clear
      /\ crashes > 0 /\ pass.stats.failed = 0 )
    => \A i \in DOMAIN pass.list :
           Eligible(disk[pass.list[i]])
           => ChunksInStore(pass.list[i])
                  = Range(chunkCode(disk[pass.list[i]], pass.list[i]))

(***************************************************************************)
(* The watch loop (src/src/commands/watch.ts, lines 75-137), after the     *)
(* initial indexAll of line 63.  Every batchEmbed and every store call     *)
(* resolves; the files written are text files.  A file event is delivered  *)
(* when the tree changes.                                                  *)
(***************************************************************************)
\* the lowest slot with no call in it
FreeSlot == CHOOSE s \in Slots : calls[s].op = "idle" /\
                                 \A t \in Slots : calls[t].op = "idle" => s <= t
HasFreeSlot == \E s \in Slots : calls[s].op = "idle"

\* number of chunks the files before position k of Files hold in a fresh index
RECURSIVE IdOffset(_, _)
IdOffset(d, k) ==
    IF k = 1 THEN 0
    ELSE IdOffset(d, k - 1)
         + (IF Eligible(d[Files[k - 1]])
            THEN Len(chunkCode(d[Files[k - 1]], Files[k - 1])) ELSE 0)

\* what a first indexAll over the tree d leaves in the journal and the table
IndexedIds(d, k) ==
    [i \in 1..Len(chunkCode(d[Files[k]], Files[k])) |-> IdOffset(d, k) + i]

IndexedFiles(d) ==
    [f \in {g \in Range(getFiles(d)) : Eligible(d[g])} |->
        LET k == CHOOSE j \in DOMAIN Files : Files[j] = f
        IN  Entry(computeHash(d[f]), IndexedIds(d, k),
                  Len(chunkCode(d[f], f)))]

IndexedTable(d) ==
    UNION {{Row(IndexedFiles(d)[f].chunkIds[i], f, computeHash(d[f]),
                chunkCode(d[f], f)[i], Embedding(i, VECTOR_DIMENSIONS)) : i \in DOMAIN IndexedFiles(d)[f].chunkIds}
           : f \in DOMAIN IndexedFiles(d)}

InitWatch ==
    /\ disk \in [FileSet -> {Absent, "A"}]
    /\ files = IndexedFiles(disk)
    /\ dirty = FALSE
    /\ stateFile = files
    /\ table = IndexedTable(disk)
    /\ calls = [s \in Slots |-> Idle]
    /\ pass = IdlePass
    /\ lastOp = NoPrior
    /\ ops = 0
    /\ crashes = 0
    /\ pendingChanges = <<>>
    /\ debounceTimer = FALSE
    /\ flushQueue = [s \in Slots |-> <<>>]
    /\ watcher = "open"
    /\ events = 0
    /\ IdleEmbed
    /\ IdleUnits

\* lines 117-121: pendingChanges.add, and the timer is set anew
scheduleUpdate(pending, filepath) ==
    IF filepath \in Range(pending) THEN pending ELSE Append(pending, filepath)

\* watcher.on("add" | "change", scheduleUpdate)
FileChanged(f, c) ==
    /\ watcher = "open"
    /\ events < MaxEvents
    /\ events' = events + 1
    /\ c # disk[f]
    /\ disk' = [disk EXCEPT ![f] = c]
    /\ pendingChanges' = scheduleUpdate(pendingChanges, f)
    /\ debounceTimer' = TRUE
    /\ UNCHANGED <<indexerVars, ops, crashes, flushQueue, watcher>>
    /\ UNCHANGED <<embedVars, unitVars>>

\* watcher.on("unlink", ...), lines 126-130: deleteFile is called at once
FileUnlinked(f) ==
    /\ watcher = "open"
    /\ events < MaxEvents
    /\ events' = events + 1
    /\ disk[f] # Absent
    /\ disk' = [disk EXCEPT ![f] = Absent]
    /\ IF f \in DOMAIN files
       THEN /\ HasFreeSlot
            /\ calls' = [calls EXCEPT ![FreeSlot] = StartDeleteFile(f, "unlink")]
       ELSE UNCHANGED calls
    /\ UNCHANGED <<files, dirty, stateFile, table, pass, lastOp, ops, crashes,
                   pendingChanges, debounceTimer, flushQueue, watcher>>
    /\ UNCHANGED <<embedVars, unitVars>>

\* line 128 resolves
UnlinkReturn(s) ==
    /\ Running
    /\ calls[s].owner = "unlink" /\ calls[s].pc = "returned"
    /\ calls' = [calls EXCEPT ![s] = Idle]
    /\ UNCHANGED <<disk, files, dirty, stateFile, table, pass, lastOp, ops, crashes,
                   watchVars>>
    /\ UNCHANGED <<embedVars, unitVars>>

\* the filters of lines 98-102; every path of the model is a regular file
RECURSIVE SkipFiltered(_)
SkipFiltered(q) ==
    IF q = <<>> THEN q
    ELSE IF disk[Head(q)] = Absent \/ isIgnored(Head(q))
    THEN SkipFiltered(Tail(q))
    ELSE q

\* the loop of lines 97-112 in slot s, with `q` still to visit: up to the next
\* indexFile, or, when none is left, the save of line 114
FlushGoto(s, q) ==
    LET rest == SkipFiltered(q)
    IN  IF rest = <<>>
        THEN /\ calls' = [calls EXCEPT ![s] = Idle]
             /\ flushQueue' = [flushQueue EXCEPT ![s] = <<>>]
             /\ stateFile' = saved(files, dirty, stateFile)
             /\ dirty' = FALSE
        ELSE /\ calls' = [calls EXCEPT ![s] =
                    StartIndexFile(files, table, Head(rest), FALSE, "flush")]
             /\ flushQueue' = [flushQueue EXCEPT ![s] = Tail(rest)]
             /\ UNCHANGED <<stateFile, dirty>>

\* the debounce timer fires: processPendingChanges, lines 91-96
TimerFires ==
    /\ Running
    /\ debounceTimer
    /\ debounceTimer' = FALSE
    /\ Len(pendingChanges) > 0
    /\ HasFreeSlot
    /\ pendingChanges' = <<>>
    /\ FlushGoto(FreeSlot, pendingChanges)
    /\ UNCHANGED <<disk, files, table, pass, lastOp, ops, crashes, watcher, events>>
    /\ UNCHANGED <<embedVars, unitVars>>

\* line 105 resolves: the loop goes on
FlushCollect(s) ==
    /\ Running
    /\ calls[s].owner = "flush" /\ calls[s].pc = "returned"
    /\ FlushGoto(s, flushQueue[s])
    /\ UNCHANGED <<disk, files, table, pass, lastOp, ops, crashes, pendingChanges,
                   debounceTimer, watcher, events>>
    /\ UNCHANGED <<embedVars, unitVars>>

\* SIGINT, lines 132-134: the handler awaits watcher.close()
Sigint ==
    /\ watcher = "open"
    /\ watcher' = "closing"
    /\ UNCHANGED <<disk, indexerVars, ops, crashes, pendingChanges, debounceTimer,
                   flushQueue, events>>
    /\ UNCHANGED <<embedVars, unitVars>>

\* lines 135-136: indexer.save(), process.exit(0)
SigintExit ==
    /\ watcher = "closing"
    /\ stateFile' = saved(files, dirty, stateFile)
    /\ dirty' = FALSE
    /\ watcher' = "exited"
    /\ UNCHANGED <<disk, files, table, calls, pass, lastOp, ops, crashes,
                   pendingChanges, debounceTimer, flushQueue, events>>
    /\ UNCHANGED <<embedVars, unitVars>>

NextWatch ==
    \/ \E f \in FileSet, c \in TextContents : FileChanged(f, c)
    \/ \E f \in FileSet : FileUnlinked(f)
    \/ TimerFires
    \/ \E s \in Slots :
        \/ DeleteByIdsDone(s)
        \/ BatchEmbedDone(s)
        \/ AddChunksCommit(s)
        \/ AddChunksReturn(s)
        \/ DeleteFileDone(s)
        \/ FlushCollect(s)
        \/ UnlinkReturn(s)
    \/ Sigint
    \/ SigintExit

SpecWatch == InitWatch /\ [][NextWatch]_vars

(***************************************************************************)
(* Properties of the watch loop.                                           *)
(***************************************************************************)
\* a call that has been started and has not resolved yet
InProgress(s) == calls[s].op # "idle" /\ calls[s].pc # "returned"

\* no event waits for the timer and no handler is awaiting anything
WatchQuiescent ==
    /\ pendingChanges = <<>>
    /\ ~debounceTimer
    /\ \A s \in Slots : calls[s].op = "idle"

\* the rows of f are exactly the chunks of the content c, each stored once
RowsMatch(f, c) ==
    /\ \A r \in RowsOf(table, f) : r.hash = computeHash(c)
    /\ {r.chunk : r \in RowsOf(table, f)} = Range(chunkCode(c, f))
    /\ Cardinality(RowsOf(table, f)) = Len(chunkCode(c, f))

\* Claim C2: in watch mode, once the events have stopped and the last flush
\* has completed (embedding and store calls all succeed here), every file on
\* disk that passes the flush filters has a journal hash equal to the hash of
\* its content and its rows in the store are exactly the chunks of that
\* content.  The files never touched by an event are in that state from the
\* initial indexAll on, so the statement is made for every file.
C2_WatchConverges ==
    (watcher = "open" /\ WatchQuiescent) =>
        \A f \in FileSet :
            (disk[f] # Absent /\ ~isIgnored(f)) =>
                /\ f \in DOMAIN files
                /\ files[f].hash = computeHash(disk[f])
                /\ RowsMatch(f, disk[f])

\* Claim C8: in watch mode at most one indexFile or deleteFile call is in
\* progress at any time, so no flush starts while another one awaits a
\* reconcile and no unlink-triggered delete overlaps a reconcile.
C8_OneMutatorAtATime ==
    Cardinality({s \in Slots : InProgress(s)}) <= 1

\* Claim C9: when the watcher is quiescent and the last event of a path p was
\* its unlink, p has no journal entry and the store holds no row of p.  In
\* this model a path is absent from the tree exactly when its last event was
\* an unlink or it never existed.
C9_UnlinkedStaysGone ==
    WatchQuiescent =>
        \A p \in FileSet :
            disk[p] = Absent =>
                /\ p \notin DOMAIN files
                /\ RowsOf(table, p) = {}

\* Claim C10: when the process has exited on the interrupt signal no reconcile
\* is left in flight, and the persisted journal lists every row that reached
\* the store.
C10_ExitAfterInFlight ==
    watcher = "exited" =>
        /\ \A s \in Slots : calls[s].op = "indexFile" => ~InProgress(s)
        /\ \A r \in table :
            /\ r.filepath \in DOMAIN stateFile
            /\ r.id \in Range(stateFile[r.filepath].chunkIds)

(***************************************************************************)
(* The watch loop with failing calls.  indexFile catches what its own      *)
(* calls throw (indexer.ts 159-163); processPendingChanges and the unlink  *)
(* handler have no try/catch, and nothing handles the promises they        *)
(* return: under Node.js 18+ (README, Prerequisites) a rejected promise    *)
(* without a handler ends the process.                                     *)
(***************************************************************************)
\* the process dies on an unhandled rejection
Terminate ==
    /\ watcher' = "crashed"
    /\ UNCHANGED <<indexerVars, ops, crashes, pendingChanges, debounceTimer,
                   flushQueue, events>>
    /\ UNCHANGED <<embedVars, unitVars>>

\* watch.ts 98-101 in a flush that goes on after an indexFile: the file is
\* there for existsSync, is removed, and statSync throws ENOENT
FlushStatThrows(s) ==
    /\ Running
    /\ calls[s].owner = "flush" /\ calls[s].pc = "returned"
    /\ SkipFiltered(flushQueue[s]) # <<>>
    /\ disk' = [disk EXCEPT ![Head(SkipFiltered(flushQueue[s]))] = Absent]
    /\ Terminate

\* the same at the first file of a flush
TimerStatThrows ==
    /\ Running
    /\ debounceTimer
    /\ SkipFiltered(pendingChanges) # <<>>
    /\ disk' = [disk EXCEPT ![Head(SkipFiltered(pendingChanges))] = Absent]
    /\ Terminate

\* watch.ts 114: writeFileSync of IndexStateManager.save throws
FlushSaveThrows(s) ==
    /\ Running
    /\ calls[s].owner = "flush" /\ calls[s].pc = "returned"
    /\ SkipFiltered(flushQueue[s]) = <<>>
    /\ dirty
    /\ UNCHANGED disk
    /\ Terminate

\* watch.ts 128: deleteByIds rejects inside indexer.deleteFile
UnlinkThrows(s) ==
    /\ Running
    /\ calls[s].owner = "unlink" /\ calls[s].pc = "deleting"
    /\ UNCHANGED disk
    /\ Terminate

NextWatchFaults ==
    \/ \E f \in FileSet, c \in TextContents : FileChanged(f, c)
    \/ \E f \in FileSet : FileUnlinked(f)
    \/ TimerFires
    \/ TimerStatThrows
    \/ \E s \in Slots :
        \/ DeleteByIdsDone(s)
        \/ DeleteByIdsFail(s)
        \/ BatchEmbedDone(s)
        \/ BatchEmbedFail(s)
        \/ AddChunksCommit(s)
        \/ AddChunksFail(s)
        \/ AddChunksReturn(s)
        \/ DeleteFileDone(s)
        \/ FlushCollect(s)
        \/ FlushStatThrows(s)
        \/ FlushSaveThrows(s)
        \/ UnlinkReturn(s)
        \/ UnlinkThrows(s)
    \/ Sigint
    \/ SigintExit

SpecWatchFaults == InitWatch /\ [][NextWatchFaults]_vars

\* Claim C11: no per-file failure in watch mode terminates the watcher
\* process: whatever fails in a flush or in the unlink handler, the process
\* is never ended by it.
C11_WatcherSurvives == watcher # "crashed"

(***************************************************************************)
(* OllamaEmbedder (src/src/lib/logger.ts 243-363): one batchEmbed call     *)
(* over `n` texts, with the configured concurrency and retries.  A text    *)
(* is named by its index, 1..n.  An attempt is one fetch of embed; the     *)
(* backend answers each attempt as it likes.                               *)
(***************************************************************************)
MaxTexts == 2
MaxConcurrency == 2
MaxRetries == 6

\* a message is the sequence of its parts; String.includes looks for a part
includes(message, text) == \E i \in DOMAIN message : message[i] = text

\* an Error object; attempts and lastError are set on a RetryError only
Err(name, message) ==
    [name |-> name, message |-> message, attempts |-> -1, lastError |-> <<>>]

RetryError(message, attempts, lastError) ==
    [name |-> "RetryError", message |-> message, attempts |-> attempts,
     lastError |-> <<lastError>>]

UnknownError == Err("Error", <<"Unknown error">>)

\* what fetch throws: the abort of fetchWithTimeout and the network errors
AbortError == Err("AbortError", <<"This operation was", "aborted">>)
ConnRefused == Err("Error", <<"connect", "ECONNREFUSED">>)
ConnReset == Err("Error", <<"read", "ECONNRESET">>)
FetchFailed == Err("TypeError", <<"fetch failed">>)
FetchErrors == {AbortError, ConnRefused, ConnReset, FetchFailed}

\* lines 319-322: the error made from a response that is not ok
ApiError(status, errorText) ==
    Err("Error", <<"Ollama API error:", status, "-">> \o errorText)
IsApiError(e) == e.message[1] = "Ollama API error:"

\* the non-2xx responses of the backend: status and body
Statuses == {"500"}
Bodies == {<<"model not found">>, <<"connect", "ECONNREFUSED">>}
ApiErrors == {ApiError(st, b) : st \in Statuses, b \in Bodies}

\* lines 279-285
isAbortError(e) == e.name = "AbortError" \/ includes(e.message, "aborted")
isNetworkError(e) ==
    \/ includes(e.message, "ECONNREFUSED")
    \/ includes(e.message, "ECONNRESET")
    \/ includes(e.message, "fetch failed")

\* a delay that doubles without the cap
backoffUncapped(attempt) == 1000 * 2 ^ (attempt - 1)

\* line 288: the delay after the failed attempt `attempt`
backoff(attempt) == Min(1000 * 2 ^ (attempt - 1), MAX_RETRY_DELAY_MS)

\* as many workers as texts
WorkerPerText(concurrency, n) == n

\* lines 334-335: Array.from({ length: Math.min(concurrency, texts.length) })
WorkerCount(concurrency, n) ==
    IF Min(concurrency, n) < 0 THEN 0 ELSE Min(concurrency, n)

\* at least one embedding failed
someFailed(errs, n) == Len(errs) > 0

\* line 356
allFailed(errs, n) == Len(errs) > 0 /\ Len(errs) = n

\* history of a text: dispatches, attempts, failed attempts, the delays
\* taken, the kind of answer to the first attempt, whether every failed
\* attempt was a refused connection, the error of the latest failed attempt,
\* and the error embed threw
NewTrail ==
    [state |-> "queued", dispatched |-> 0, attempts |-> 0, failures |-> 0,
     delays |-> <<>>, first |-> "none", allRefused |-> TRUE, last |-> <<>>,
     thrown |-> <<>>]

\* embed(item.text) is called: withRetry starts its first attempt, or, with
\* retries < 1, leaves the loop at once
StartEmbed(i) ==
    [pc |-> IF batch.retries >= 1 THEN "fetching" ELSE "rejected",
     item |-> i, attempt |-> 1, lastError |-> UnknownError]

TrailDispatch(t) ==
    [t EXCEPT !.state = "active", !.dispatched = @ + 1,
              !.attempts = IF batch.retries >= 1 THEN 1 ELSE 0]

restVars == <<disk, indexerVars, ops, crashes, watchVars, unitVars>>

\* the workers a batch can have
Workers == 1..MaxConcurrency

InitEmbed ==
    /\ disk = [f \in FileSet |-> Absent]
    /\ files = NoFiles
    /\ dirty = FALSE
    /\ stateFile = NoFiles
    /\ table = {}
    /\ calls = [s \in Slots |-> Idle]
    /\ pass = IdlePass
    /\ lastOp = NoPrior
    /\ ops = 0
    /\ crashes = 0
    /\ IdleWatch
    /\ batch \in {[pc |-> "called", n |-> n, concurrency |-> c, retries |-> r,
                   error |-> <<>>] :
                      n \in 0..MaxTexts, c \in 0..MaxConcurrency, r \in 0..MaxRetries}
    /\ queue = <<>>
    /\ results = <<>>
    /\ errors = <<>>
    /\ workers = <<>>
    /\ trail = <<>>
    /\ IdleUnits

\* lines 330-352, up to the first await of every worker
BatchStart ==
    /\ batch.pc = "called"
    /\ LET w == WorkerCount(batch.concurrency, batch.n)
       IN  /\ workers' = [k \in 1..w |-> StartEmbed(k)]
           /\ queue' = [k \in 1..(batch.n - w) |-> w + k]
           /\ trail' = [k \in 1..batch.n |->
                           IF k <= w THEN TrailDispatch(NewTrail) ELSE NewTrail]
    /\ results' = [k \in 1..batch.n |-> Hole]
    /\ errors' = <<>>
    /\ batch' = [batch EXCEPT !.pc = "running"]
    /\ UNCHANGED restVars

\* lines 338-351: the slot of the item is written and the worker loops: it
\* takes the next index of the queue, or ends
Settled(w, res, errs, tr) ==
    /\ results' = res
    /\ errors' = errs
    /\ IF queue = <<>>
       THEN /\ workers' = [workers EXCEPT ![w] = [@ EXCEPT !.pc = "done"]]
            /\ queue' = queue
            /\ trail' = tr
       ELSE /\ workers' = [workers EXCEPT ![w] = StartEmbed(Head(queue))]
            /\ queue' = Tail(queue)
            /\ trail' = [tr EXCEPT ![Head(queue)] = TrailDispatch(@)]

\* lines 324-325: a 2xx response; data.embedding is returned as it came
AttemptOk(w, d) ==
    /\ w \in DOMAIN workers
    /\ workers[w].pc = "fetching"
    /\ LET i == workers[w].item
       IN  Settled(w, [results EXCEPT ![i] = Embedding(i, d)], errors,
                   [trail EXCEPT ![i] =
                       [@ EXCEPT !.state = "ok",
                                 !.first = IF @ = "none" THEN "ok" ELSE @]])
    /\ UNCHANGED <<batch, restVars>>

\* lines 276-295: the attempt throws `e` (fetch threw, or the response was
\* not ok); withRetry sleeps and goes on, or throws lastError to the worker,
\* whose catch (lines 344-349) records it and writes the zero vector
AttemptFails(w, e) ==
    /\ w \in DOMAIN workers
    /\ workers[w].pc = "fetching"
    /\ LET i == workers[w].item
           attempt == workers[w].attempt
           tr == [trail[i] EXCEPT
                     !.failures = @ + 1,
                     !.first = IF @ # "none" THEN @
                               ELSE IF IsApiError(e) THEN "http" ELSE "throw",
                     !.allRefused = @ /\ e = ConnRefused,
                     !.last = <<e>>]
       IN  IF attempt < batch.retries /\ (isAbortError(e) \/ isNetworkError(e))
           THEN /\ workers' = [workers EXCEPT ![w] =
                       [@ EXCEPT !.pc = "sleeping", !.lastError = e]]
                /\ trail' = [trail EXCEPT ![i] =
                       [tr EXCEPT !.delays = Append(@, backoff(attempt))]]
                /\ UNCHANGED <<queue, results, errors>>
           ELSE Settled(w, [results EXCEPT ![i] = ZeroVector],
                        Append(errors, [index |-> i, error |-> e]),
                        [trail EXCEPT ![i] =
                            [tr EXCEPT !.state = "failed", !.thrown = <<e>>]])
    /\ UNCHANGED <<batch, restVars>>

\* line 290 resolves: the next attempt
SleepDone(w) ==
    /\ w \in DOMAIN workers
    /\ workers[w].pc = "sleeping"
    /\ workers' = [workers EXCEPT ![w] =
           [@ EXCEPT !.pc = "fetching", !.attempt = @ + 1]]
    /\ trail' = [trail EXCEPT ![workers[w].item] =
           [@ EXCEPT !.attempts = @ + 1]]
    /\ UNCHANGED <<batch, queue, results, errors, restVars>>

\* lines 298-302: the loop made no attempt; the RetryError reaches the worker
EmbedRejects(w) ==
    /\ w \in DOMAIN workers
    /\ workers[w].pc = "rejected"
    /\ LET i == workers[w].item
           e == RetryError(<<"embed failed after attempts">>, batch.retries,
                           workers[w].lastError)
       IN  Settled(w, [results EXCEPT ![i] = ZeroVector],
                   Append(errors, [index |-> i, error |-> e]),
                   [trail EXCEPT ![i] =
                       [@ EXCEPT !.state = "failed", !.thrown = <<e>>]])
    /\ UNCHANGED <<batch, restVars>>

\* lines 354-362: Promise.all resolves
BatchSettle ==
    /\ batch.pc = "running"
    /\ \A w \in DOMAIN workers : workers[w].pc = "done"
    /\ batch' = IF allFailed(errors, batch.n)
                THEN [batch EXCEPT !.pc = "thrown",
                         !.error = <<"All embeddings failed. First error:">>
                                   \o errors[1].error.message]
                ELSE [batch EXCEPT !.pc = "returned"]
    /\ UNCHANGED <<queue, results, errors, workers, trail, restVars>>

NextEmbed ==
    \/ BatchStart
    \/ \E w \in Workers :
        \/ \E d \in ResponseDims : AttemptOk(w, d)
        \/ \E e \in FetchErrors \cup ApiErrors : AttemptFails(w, e)
        \/ SleepDone(w)
        \/ EmbedRejects(w)
    \/ BatchSettle

SpecEmbed == InitEmbed /\ [][NextEmbed]_vars

\* the embed requests awaiting their response
InFlight == {w \in DOMAIN workers : workers[w].pc = "fetching"}

Finished(i) == trail[i].state \in {"ok", "failed"}

\* Claim C12: an embed call makes at most `retries` attempts; it retries only
\* after an abort/timeout, ECONNRESET, ECONNREFUSED or `fetch failed` error
\* thrown by fetch; and with the default 3 retries, against a backend that
\* refuses the connection twice and then answers, it returns successfully
\* after exactly 3 attempts.
C12_RetryPolicy ==
    /\ \A i \in DOMAIN trail :
        /\ trail[i].attempts <= batch.retries
        /\ (/\ batch.retries = DEFAULT_OLLAMA_RETRIES
            /\ trail[i].allRefused /\ trail[i].failures = 2
            /\ Finished(i))
           => (trail[i].state = "ok" /\ trail[i].attempts = 3)
    /\ \A w \in DOMAIN workers :
        workers[w].pc = "sleeping" => workers[w].lastError \in FetchErrors

\* Claim C13: a response with a non-2xx status and a body, whatever the text
\* of the body, makes embed fail after exactly one attempt, without a retry
\* and without a back-off delay.
C13_HttpErrorNotRetried ==
    \A i \in DOMAIN trail :
        trail[i].first = "http" =>
            /\ trail[i].state = "failed"
            /\ trail[i].attempts = 1
            /\ trail[i].delays = <<>>

\* Claim C14: when every one of the `retries` attempts of an embed call fails
\* with a retryable error, embed throws a RetryError whose attempts field is
\* the number of attempts made and whose lastError is the error of the final
\* attempt.
C14_RetryErrorOnExhaustion ==
    \A i \in DOMAIN trail :
        (/\ trail[i].state = "failed"
         /\ batch.retries >= 1
         /\ trail[i].failures = batch.retries
         /\ trail[i].last[1] \in FetchErrors)
        => /\ trail[i].thrown[1].name = "RetryError"
           /\ trail[i].thrown[1].attempts = trail[i].attempts
           /\ trail[i].thrown[1].lastError = trail[i].last

\* Claim C15: the delay taken before attempt k (k >= 2) of an embed call is
\* min(1000 * 2^(k-2), 10000) ms, and no delay follows the final attempt.
C15_BackoffDelays ==
    \A i \in DOMAIN trail :
        /\ \A k \in 2..(Len(trail[i].delays) + 1) :
            trail[i].delays[k - 1] =
                IF 1000 * 2 ^ (k - 2) < 10000 THEN 1000 * 2 ^ (k - 2) ELSE 10000
        /\ Len(trail[i].delays) <= trail[i].attempts
        /\ Finished(i) /\ trail[i].attempts >= 1
           => Len(trail[i].delays) = trail[i].attempts - 1

\* an embed call that went as far as the capped delay
C15_Witness ==
    \E i \in DOMAIN trail :
        /\ Finished(i)
        /\ trail[i].attempts = 6
        /\ trail[i].delays = <<1000, 2000, 4000, 8000, 10000>>

\* Claim C16: during batchEmbed(texts, C) the number of embedding requests
\* in flight never exceeds C and never exceeds the number of texts.
C16_InFlightBound ==
    /\ Cardinality(InFlight) <= batch.concurrency
    /\ Cardinality(InFlight) <= batch.n

\* C requests in flight while a text still waits in the queue
C16_Witness ==
    /\ batch.concurrency >= 1
    /\ Cardinality(InFlight) = batch.concurrency
    /\ queue # <<>>

\* Claim C17: for every N and every concurrency C, batchEmbed dispatches each
\* text exactly once and returns an array of length N whose slot i holds the
\* result for texts[i], its embedding or the zero vector; no slot is left
\* unfilled.
C17_EverySlotFilled ==
    /\ \A i \in DOMAIN trail : trail[i].dispatched <= 1
    /\ batch.pc = "returned" =>
        /\ Len(results) = batch.n
        /\ \A i \in DOMAIN results :
            /\ trail[i].dispatched = 1
            /\ \/ results[i].kind = "embedding" /\ results[i].of = i
               \/ results[i] = ZeroVector /\ trail[i].state = "failed"

\* Claim C18: a text whose embed fails gets the zero vector of dimension D
\* and the batch still returns when a text succeeded; batchEmbed throws if
\* and only if N >= 1 and every text failed, and its error reports the first
\* recorded error; an empty input returns an empty array.
C18_PartialFailure ==
    /\ \A i \in DOMAIN trail :
        trail[i].state = "failed" =>
            /\ results[i].kind = "zero"
            /\ results[i].dim = VECTOR_DIMENSIONS
    /\ batch.pc \in {"returned", "thrown"} =>
        /\ batch.pc = "thrown" <=>
              (batch.n >= 1 /\ \A i \in 1..batch.n : trail[i].state = "failed")
        /\ batch.pc = "thrown" =>
              batch.error = <<"All embeddings failed. First error:">>
                            \o trail[errors[1].index].thrown[1].message
        /\ batch.n = 0 => (batch.pc = "returned" /\ results = <<>>)

\* a batch that returned with one text failed and one embedded
C18_Witness ==
    /\ batch.pc = "returned"
    /\ \E i, j \in DOMAIN trail :
        /\ trail[i].state = "failed" /\ results[i] = ZeroVector
        /\ trail[j].state = "ok" /\ results[j].kind = "embedding"

(***************************************************************************)
(* Embedding failures inside indexFile (Spec).                             *)
(***************************************************************************)
\* batchEmbed returned with the zero vector in some slot
PartlyEmbedded(call) ==
    \E i \in DOMAIN call.vectors : call.vectors[i] = ZeroVector

\* the call left a row for each chunk of the content it read, under the ids
\* it minted
RowForEveryChunk(call) ==
    LET chunks == chunkCode(call.content, call.filepath)
    IN  /\ Len(call.chunkIds) = Len(chunks)
        /\ \A i \in DOMAIN chunks :
            \E r \in table : /\ r.id = call.chunkIds[i]
                             /\ r.filepath = call.filepath
                             /\ r.chunk = chunks[i]

\* what indexFile does with a batch in which some, but not all, chunks failed
IndexedDespiteFailures(call) ==
    /\ ~call.result.skipped
    /\ call.result.error = ""
    /\ call.result.chunks = Len(chunkCode(call.content, call.filepath))
    /\ RowForEveryChunk(call)
    /\ call.filepath \in DOMAIN files
    /\ files[call.filepath] =
           Entry(call.hash, call.chunkIds,
                 Len(chunkCode(call.content, call.filepath)))

\* what indexFile does when every chunk failed
FailedWithoutTrace(call) ==
    /\ call.result.skipped
    /\ call.result.error # ""
    /\ RowsOf(table, call.filepath) \subseteq call.rowsBefore
    /\ files = call.before

\* Claim C19, as stated: when some but not all chunk embeddings of a file
\* fail, indexFile returns skipped=false with the full chunk count, inserts a
\* row for every chunk and updates the journal entry; when all of them fail
\* it returns an error result, inserts no row and leaves the journal as it
\* was.
C19_EmbeddingFailures ==
    \A s \in Slots :
        ReturnedIndexFile(s) =>
            /\ PartlyEmbedded(calls[s]) => IndexedDespiteFailures(calls[s])
            /\ calls[s].result.error = "All embeddings failed"
                   => FailedWithoutTrace(calls[s])

\* Claim C19, amended: the same, for a call whose store insert succeeds.
C19_EmbeddingFailuresStoreOk ==
    \A s \in Slots :
        ReturnedIndexFile(s) =>
            /\ (PartlyEmbedded(calls[s]) /\ calls[s].result.error # "add failed")
                   => IndexedDespiteFailures(calls[s])
            /\ calls[s].result.error = "All embeddings failed"
                   => FailedWithoutTrace(calls[s])

\* a two-chunk file indexed with one chunk on the zero vector
C19_Witness ==
    \E s \in Slots :
        /\ ReturnedIndexFile(s)
        /\ PartlyEmbedded(calls[s])
        /\ calls[s].result.chunks = 2
        /\ \E r \in table : r.id \in Range(calls[s].chunkIds) /\ r.vector = ZeroVector

MaxNow == 5        \* the clock value the last journal call may read

JournalKinds == {"missing", "unreadable", "corrupt", "valid"}

\* the metadata setFile is called with
Metadata == {Entry(computeHash("A"), <<1>>, 1), Entry(computeHash("B"), <<2, 3>>, 2)}

JournalMaps == UNION {[S -> Metadata] : S \in SUBSET FileSet}

\* load, lines 114-128: the `files` map of the journal after the try/catch
loadFiles(kind, sf, fs) ==
    CASE kind = "valid" -> load(sf)
      [] kind = "missing" -> fs
      [] OTHER -> NoFiles

\* load, lines 114-128: state.lastSync after the try/catch, read at time t
loadLastSync(file, ls, t) ==
    CASE file.kind = "valid" -> IF file.lastSync # 0 THEN file.lastSync ELSE t
      [] file.kind = "missing" -> ls
      [] OTHER -> t

\* a deleteFile that marks the journal dirty whether or not it had the entry
deleteFileDirtyAlways(fs, filepath, d) == TRUE

\* deleteFile, lines 160-165: the dirty flag after the call
deleteFileDirty(fs, filepath, d) == d \/ filepath \in DOMAIN fs

Called(op, filepath, threw, mutated) ==
    [op |-> op, filepath |-> filepath, threw |-> threw, mutated |-> mutated,
     mutatedBefore |-> history.mutated, fileBefore |-> <<statePath, stateFile>>,
     lastSyncBefore |-> lastSync, filesBefore |-> files]

journalRest == <<disk, table, calls, pass, lastOp, ops, crashes, watchVars,
                 embedVars, search, chunking, walk, timerVars>>

\* the constructor has run (lines 105-111); the file is whatever an earlier
\* process or the user left at statePath
InitJournal ==
    /\ disk = [f \in FileSet |-> Absent]
    /\ files = NoFiles
    /\ dirty = FALSE
    /\ \E k \in JournalKinds :
          IF k = "valid"
          THEN /\ statePath \in {JournalFile(k, l) : l \in {0, 1}}
               /\ stateFile \in JournalMaps
          ELSE /\ statePath = JournalFile(k, 0)
               /\ stateFile = NoFiles
    /\ lastSync = 1
    /\ now = 1
    /\ history = NoHistory
    /\ table = {}
    /\ calls = [s \in Slots |-> Idle]
    /\ pass = IdlePass
    /\ lastOp = NoPrior
    /\ ops = 0
    /\ crashes = 0
    /\ IdleWatch
    /\ IdleEmbed
    /\ search = NoCall
    /\ chunking = NoCall
    /\ walk = NoCall
    /\ IdleTimer

\* load(), lines 113-132
JournalLoad ==
    /\ now < MaxNow
    /\ now' = now + 1
    /\ files' = loadFiles(statePath.kind, stateFile, files)
    /\ lastSync' = loadLastSync(statePath, lastSync, now')
    /\ dirty' = FALSE
    /\ history' = Called("load", NoFile, FALSE, FALSE)
    /\ UNCHANGED <<statePath, stateFile, journalRest>>

\* save(), lines 134-149, mkdirSync and writeFileSync succeeding
JournalSave ==
    /\ now < MaxNow
    /\ now' = now + 1
    /\ stateFile' = saved(files, dirty, stateFile)
    /\ statePath' = IF dirty THEN JournalFile("valid", now') ELSE statePath
    /\ lastSync' = IF dirty THEN now' ELSE lastSync
    /\ dirty' = FALSE
    /\ history' = Called("save", NoFile, FALSE, FALSE)
    /\ UNCHANGED <<files, journalRest>>

\* save(), lines 134-149, with mkdirSync throwing (lastSync not yet bumped) or
\* writeFileSync throwing (lastSync bumped, the file as it was or cut short)
JournalSaveThrows(bumped, damaged) ==
    /\ now < MaxNow
    /\ dirty
    /\ damaged => bumped
    /\ now' = now + 1
    /\ lastSync' = IF bumped THEN now' ELSE lastSync
    /\ statePath' = IF damaged THEN JournalFile("corrupt", 0) ELSE statePath
    /\ stateFile' = IF damaged THEN NoFiles ELSE stateFile
    /\ history' = Called("save", NoFile, TRUE, history.mutated)
    /\ UNCHANGED <<files, dirty, journalRest>>

\* setFile(filepath, metadata), lines 151-154
JournalSetFile(f, m) ==
    /\ now < MaxNow
    /\ now' = now + 1
    /\ files' = setFile(files, f, m)
    /\ dirty' = TRUE
    /\ history' = Called("setFile", f, FALSE, TRUE)
    /\ UNCHANGED <<statePath, stateFile, lastSync, journalRest>>

\* deleteFile(filepath), lines 160-165
JournalDeleteFile(f) ==
    /\ now < MaxNow
    /\ now' = now + 1
    /\ files' = removeFile(files, f)
    /\ dirty' = deleteFileDirty(files, f, dirty)
    /\ history' = Called("deleteFile", f, FALSE, history.mutated \/ f \in DOMAIN files)
    /\ UNCHANGED <<statePath, stateFile, lastSync, journalRest>>

\* clear(), lines 189-192
JournalClear ==
    /\ now < MaxNow
    /\ now' = now + 1
    /\ files' = NoFiles
    /\ dirty' = TRUE
    /\ history' = Called("clear", NoFile, FALSE, TRUE)
    /\ UNCHANGED <<statePath, stateFile, lastSync, journalRest>>

NextJournal ==
    \/ JournalLoad
    \/ JournalSave
    \/ \E bumped \in BOOLEAN, damaged \in BOOLEAN : JournalSaveThrows(bumped, damaged)
    \/ \E f \in FileSet, m \in Metadata : JournalSetFile(f, m)
    \/ \E f \in FileSet : JournalDeleteFile(f)
    \/ JournalClear

SpecJournal == InitJournal /\ [][NextJournal]_vars

\* the call that just returned wrote the journal file: the file is valid and
\* carries the time of this call
Wrote == statePath = JournalFile("valid", now)

\* C21: a save() writes the journal file if and only if setFile, deleteFile
\* of an existing entry or clear was called since the last load or successful
\* save; a save on a clean journal leaves the file and lastSync untouched and
\* does not throw; right after a write the journal is clean and the `files`
\* map of the file equals the one in memory.
C21_SaveWritesIffMutated ==
    history.op = "save" =>
        /\ ~history.mutatedBefore =>
              /\ ~history.threw
              /\ ~Wrote
              /\ <<statePath, stateFile>> = history.fileBefore
              /\ lastSync = history.lastSyncBefore
        /\ history.mutatedBefore /\ ~history.threw => Wrote
        /\ Wrote =>
              /\ history.mutatedBefore
              /\ ~dirty
              /\ stateFile = files
              /\ lastSync = now

\* a save after a mutating call, which wrote a journal that holds an entry
C21_Witness ==
    /\ history.op = "save"
    /\ history.mutatedBefore
    /\ Wrote
    /\ files # NoFiles
    /\ stateFile = files

\* C22: load() never fails: with the journal file missing, unreadable or
\* holding corrupt JSON it completes without error, the journal's file map is
\* empty and the journal is clean.
C22_LoadYieldsEmptyJournal ==
    history.op = "load" /\ statePath.kind \in {"missing", "unreadable", "corrupt"} =>
        /\ ~history.threw
        /\ files = NoFiles
        /\ ~dirty

(***************************************************************************)
(* Index, clear, re-index (Spec): indexAll, then clear, then indexAll,     *)
(* with no edit of the tree in between.                                    *)
(***************************************************************************)
\* the second indexAll has gone through its list (line 200 has run); the
\* operation before it was a clear that succeeded, and before that an
\* indexAll returned, the tree being the same ever since
Reindexed ==
    /\ pass.op = "indexAll" /\ pass.pc = "done"
    /\ pass.prior.op = "clear" /\ ~pass.prior.error
    /\ pass.prior.first.done

\* the paths the walker emits whose content passes the guards of indexFile
\* (lines 94-111)
EligibleFiles(d) == {f \in Range(getFiles(d)) : Eligible(d[f])}

\* every file of the journal has the chunk count it had in the journal the
\* first indexAll left
CountsReproduced ==
    \A f \in DOMAIN files :
        /\ f \in DOMAIN pass.prior.first.counts
        /\ files[f].chunkCount = pass.prior.first.counts[f]

\* C23 as stated: index, clear, re-index of an unchanged tree yields a journal
\* whose keys are the paths the walker emits and whose chunk counts are those
\* of the first index.
C23_ReindexReproduces ==
    Reindexed =>
        /\ DOMAIN files = Range(getFiles(disk))
        /\ CountsReproduced

\* C23 amended: when neither pass reports a failed file, index, clear,
\* re-index of an unchanged tree yields a journal whose keys are the
\* walker-emitted paths that pass the size and binary guards and whose chunk
\* counts are those of the first index.
C23_ReindexReproducesEligible ==
    Reindexed /\ ~pass.prior.first.failed /\ pass.stats.failed = 0 =>
        /\ DOMAIN files = EligibleFiles(disk)
        /\ CountsReproduced

\* a re-index without failures of a tree with one file of two chunks and one
\* file the guards skip
C23_Witness ==
    /\ Reindexed /\ ~pass.prior.first.failed /\ pass.stats.failed = 0
    /\ \E f \in DOMAIN files : files[f].chunkCount = 2
    /\ \E f \in Range(getFiles(disk)) : f \notin DOMAIN files

(***************************************************************************)
(* LanceDBStore.search with a path filter (src/src/lib/logger.ts 496-537). *)
(* A string is the sequence of its characters.  The filter                 *)
(* filepath LIKE '<escaped>%' is evaluated by the store: a doubled quote   *)
(* in the literal is one quote, `%` matches any run of characters and `_`  *)
(* any one character; whether the store's LIKE takes a backslash as an     *)
(* escape character is left open (both are checked).                       *)
(***************************************************************************)
MaxPathLen == 2    \* characters in a path filter and in a stored filepath

Chars == {"a", "'", "\\", "\"", "%", "_", "\n"}

\* characters with a code below 32 or equal to 127
ControlChars == {"\n"}

Strings == UNION {[1..n -> Chars] : n \in 0..MaxPathLen}

\* lines 497-500: the three replace calls, on one character
escapeChar(c) ==
    CASE c = "\\" -> <<"\\", "\\">>
      [] c = "'" -> <<"'", "'">>
      [] c = "\"" -> <<"\\", "\"">>
      [] OTHER -> <<c>>

\* lines 497-500: every occurrence in the string is replaced
RECURSIVE replaceAll(_)
replaceAll(str) ==
    IF str = <<>> THEN <<>> ELSE escapeChar(Head(str)) \o replaceAll(Tail(str))

\* lines 496-511
escapeSqlString(value) ==
    SelectSeq(replaceAll(value), LAMBDA c : c \notin ControlChars)

\* the value of the SQL string literal '<body>': a doubled quote is one quote
RECURSIVE literalValue(_)
literalValue(body) ==
    IF body = <<>> THEN <<>>
    ELSE IF Len(body) >= 2 /\ body[1] = "'" /\ body[2] = "'"
    THEN <<"'">> \o literalValue(Tail(Tail(body)))
    ELSE <<Head(body)>> \o literalValue(Tail(body))

\* text LIKE pattern
RECURSIVE Like(_, _, _)
Like(text, pattern, backslashEscapes) ==
    IF pattern = <<>> THEN text = <<>>
    ELSE IF Head(pattern) = "%"
    THEN \/ Like(text, Tail(pattern), backslashEscapes)
         \/ text # <<>> /\ Like(Tail(text), pattern, backslashEscapes)
    ELSE IF Head(pattern) = "_"
    THEN text # <<>> /\ Like(Tail(text), Tail(pattern), backslashEscapes)
    ELSE IF backslashEscapes /\ Head(pattern) = "\\" /\ Len(pattern) >= 2
    THEN /\ text # <<>>
         /\ Head(text) = pattern[2]
         /\ Like(Tail(text), Tail(Tail(pattern)), backslashEscapes)
    ELSE /\ text # <<>>
         /\ Head(text) = Head(pattern)
         /\ Like(Tail(text), Tail(pattern), backslashEscapes)

\* lines 520-527: the filepaths of the rows the query yields from a table
\* with a row for every path of `paths`
searchPaths(paths, pathFilter, backslashEscapes) ==
    IF pathFilter = <<>> THEN paths
    ELSE {p \in paths : Like(p, literalValue(escapeSqlString(pathFilter) \o <<"%">>),
                             backslashEscapes)}

startsWith(str, prefix) ==
    Len(str) >= Len(prefix) /\ SubSeq(str, 1, Len(prefix)) = prefix

\* search(queryVector, limit, pathFilter) is called on a table that has a row
\* for every filepath of Strings
InitSearch ==
    /\ disk = [f \in FileSet |-> Absent]
    /\ files = NoFiles
    /\ dirty = FALSE
    /\ stateFile = NoFiles
    /\ table = {}
    /\ calls = [s \in Slots |-> Idle]
    /\ pass = IdlePass
    /\ lastOp = NoPrior
    /\ ops = 0
    /\ crashes = 0
    /\ IdleWatch
    /\ IdleEmbed
    /\ IdleJournal
    /\ search \in {[pc |-> "called", pathFilter |-> p, backslashEscapes |-> b,
                    result |-> {}] : p \in Strings, b \in BOOLEAN}
    /\ chunking = NoCall
    /\ walk = NoCall
    /\ IdleTimer

\* lines 520-536
SearchReturn ==
    /\ search.pc = "called"
    /\ search' = [search EXCEPT !.pc = "returned",
                     !.result = searchPaths(Strings, search.pathFilter,
                                            search.backslashEscapes)]
    /\ UNCHANGED <<disk, indexerVars, ops, crashes, watchVars, embedVars,
                   journalVars, chunking, walk, timerVars>>

NextSearch == SearchReturn

SpecSearch == InitSearch /\ [][NextSearch]_vars

\* C24: search with a path prefix returns only rows whose filepath begins
\* with exactly that prefix, whatever characters the prefix holds.
C24_PrefixFilterExact ==
    search.pc = "returned" =>
        \A p \in search.result : startsWith(p, search.pathFilter)

(***************************************************************************)
(* The guards of indexFile (src/src/lib/indexer.ts 91-111): indexFile      *)
(* called on a file whose content lies on or next to the edge of a guard.  *)
(***************************************************************************)
InitGuards ==
    /\ disk \in {[f \in FileSet |-> IF f = Files[1] THEN c ELSE Absent] :
                    c \in Contents \cup EdgeContents}
    /\ files = NoFiles
    /\ dirty = FALSE
    /\ stateFile = NoFiles
    /\ table = {}
    /\ calls = [s \in Slots |-> Idle]
    /\ pass = IdlePass
    /\ lastOp = NoPrior
    /\ ops = 0
    /\ crashes = 0
    /\ IdleWatch
    /\ IdleEmbed
    /\ IdleUnits

NextGuards ==
    \/ \E f \in FileSet, force \in BOOLEAN : ApiIndexFile(f, force)
    \/ \E s \in Slots : DeleteByIdsDone(s)
    \/ \E s \in Slots : DeleteByIdsFail(s)
    \/ \E s \in Slots : BatchEmbedDone(s)
    \/ \E s \in Slots : BatchEmbedFail(s)
    \/ \E s \in Slots : AddChunksCommit(s)
    \/ \E s \in Slots : AddChunksFail(s)
    \/ \E s \in Slots : AddChunksReturn(s)
    \/ \E s \in Slots : ApiReturn(s)

SpecGuards == InitGuards /\ [][NextGuards]_vars

\* the NUL code units among the first BINARY_SAMPLE_SIZE code units of c
NulsInSample(c) == Cardinality({p \in NulPositions(c) : p < BINARY_SAMPLE_SIZE})

Guarded(c) == Size(c) = 0 \/ Size(c) > MAX_FILE_SIZE \/ NulsInSample(c) > 1

\* the call came back from a guard: {chunks: 0, skipped: true}, no error, no
\* hash taken, no embedding or store call, journal and rows as before
SkippedByGuard(call) ==
    /\ call.pc = "returned"
    /\ call.result = [chunks |-> 0, skipped |-> TRUE, error |-> ""]
    /\ call.hash = <<>>
    /\ call.embeds = 0 /\ call.storeOps = 0
    /\ files = call.before
    /\ RowsOf(table, call.filepath) = call.rowsBefore

\* C25: indexFile returns {chunks: 0, skipped: true} with no error and with
\* no embedding, store or journal call when the file is empty, larger than
\* maxFileSize, or has more than one NUL among its first 8000 code units; a
\* file of exactly maxFileSize bytes, or with exactly one NUL in the sample,
\* passes the guards and gets to the hash check.
C25_Guards ==
    \A s \in Slots :
        calls[s].op = "indexFile" /\ calls[s].content # Absent =>
            IF Guarded(calls[s].content)
            THEN SkippedByGuard(calls[s])
            ELSE calls[s].hash = computeHash(calls[s].content)

\* the second call of a caller found NULs at the first and the last position
\* of the sample and skipped the file
C25_Witness ==
    \E s \in Slots :
        /\ calls[s].op = "indexFile"
        /\ calls[s].content = "nuledge"
        /\ SkippedByGuard(calls[s])
        /\ ops = 2

(***************************************************************************)
(* CodeChunker.chunkCode on its own (src/src/lib/chunker.ts 84-199), with  *)
(* the default configuration the Indexer constructs it with.  The file is  *)
(* its number of lines, the lines that match a boundary pattern and its    *)
(* extension.                                                              *)
(***************************************************************************)
MaxLines == 310    \* lines of a file given to chunkCode

\* line indices (0-based) that may match a boundary pattern, one by one
MarkLines == {3, 8, 153, 160, 306}

\* the sets of matching lines: any choice of MarkLines, or every fourth line
MarkSets(n) == SUBSET MarkLines \cup {{i \in 0..(n - 1) : i % 4 = 0}}

ChunkExts == {"ts", "md"}

InitChunk ==
    /\ disk = [f \in FileSet |-> Absent]
    /\ files = NoFiles
    /\ dirty = FALSE
    /\ stateFile = NoFiles
    /\ table = {}
    /\ calls = [s \in Slots |-> Idle]
    /\ pass = IdlePass
    /\ lastOp = NoPrior
    /\ ops = 0
    /\ crashes = 0
    /\ IdleWatch
    /\ IdleEmbed
    /\ IdleJournal
    /\ search = NoCall
    /\ \E n \in 1..MaxLines :
          chunking \in {[pc |-> "called", lines |-> n, marks |-> m, ext |-> x,
                         chunks |-> <<>>] : m \in MarkSets(n), x \in ChunkExts}
    /\ walk = NoCall
    /\ IdleTimer

\* chunkCode(content, filepath) returns
ChunkCodeReturn ==
    /\ chunking.pc = "called"
    /\ chunking' = [chunking EXCEPT !.pc = "returned",
                       !.chunks = chunkLines(chunking.lines,
                                      boundariesOf(chunking.lines, chunking.marks,
                                                   chunking.ext))]
    /\ UNCHANGED <<disk, indexerVars, ops, crashes, watchVars, embedVars,
                   journalVars, search, walk, timerVars>>

NextChunk == ChunkCodeReturn

SpecChunk == InitChunk /\ [][NextChunk]_vars

\* line l (1-based) lies in the line range of a returned chunk
Covered(l) ==
    \E k \in DOMAIN chunking.chunks :
        chunking.chunks[k].lineStart <= l /\ l <= chunking.chunks[k].lineEnd

\* the segments between consecutive boundaries of the file, the end of the
\* file closing the last one: <<start, end>> holds the lines start+1..end
Segments ==
    LET bs == Append(boundariesOf(chunking.lines, chunking.marks, chunking.ext),
                     chunking.lines)
    IN  {<<bs[i], bs[i + 1]>> : i \in 1..(Len(bs) - 1)}

BoundaryDriven ==
    Len(boundariesOf(chunking.lines, chunking.marks, chunking.ext)) > 1

\* line l lies in a segment between boundaries of fewer than minChunkLines lines
InShortSegment(l) ==
    /\ BoundaryDriven
    /\ \E sg \in Segments :
          sg[1] < l /\ l <= sg[2] /\ sg[2] - sg[1] < DEFAULT_MIN_CHUNK_LINES

\* C26: for a file of more than maxChunkLines lines the line ranges of the
\* chunks cover every line 1..totalLines, except lines of boundary-driven
\* segments shorter than minChunkLines; without a boundary match no line is
\* left uncovered.
C26_ChunksCoverFile ==
    chunking.pc = "returned" /\ chunking.lines > DEFAULT_MAX_CHUNK_LINES =>
        /\ \A l \in 1..chunking.lines : Covered(l) \/ InShortSegment(l)
        /\ ~BoundaryDriven => \A l \in 1..chunking.lines : Covered(l)

\* a file chunked by its boundaries: a short segment was dropped, an oversize
\* segment was subdivided, and every other line is covered
C26_Witness ==
    /\ chunking.pc = "returned" /\ chunking.lines > DEFAULT_MAX_CHUNK_LINES
    /\ BoundaryDriven
    /\ \E l \in 1..chunking.lines : ~Covered(l)
    /\ \E sg \in Segments : sg[2] - sg[1] > DEFAULT_MAX_CHUNK_LINES
    /\ Len(chunking.chunks) >= 3

\* C27: every chunk chunkCode returns has 1 <= lineStart <= lineEnd <=
\* totalLines, and its content is the lines lineStart..lineEnd of the file
\* joined by newlines (the slice [lineStart - 1, lineEnd) of the lines).
C27_ChunkLineNumbers ==
    chunking.pc = "returned" =>
        \A k \in DOMAIN chunking.chunks :
            LET ch == chunking.chunks[k]
            IN  /\ 1 <= ch.lineStart
                /\ ch.lineStart <= ch.lineEnd
                /\ ch.lineEnd <= chunking.lines
                /\ ch.sliceFrom = ch.lineStart - 1
                /\ ch.sliceTo = ch.lineEnd

\* chunks of a subdivided oversize segment that does not start at line 1:
\* two chunks of a boundary-driven file overlap
C27_Witness ==
    /\ chunking.pc = "returned"
    /\ BoundaryDriven
    /\ \E j, k \in DOMAIN chunking.chunks :
          /\ j < k
          /\ chunking.chunks[j].lineStart > 1
          /\ chunking.chunks[k].lineStart <= chunking.chunks[j].lineEnd

(***************************************************************************)
(* FileSystem.getFiles on its own (src/src/lib/file.ts 105-217) over a     *)
(* tree with directories, hidden entries, links and ignore files.  A path  *)
(* is the sequence of its entry names below the root.  An ignore pattern   *)
(* is `name/` (a directory of that name, at any depth) or `*.ext`; the     *)
(* global patterns are those of IgnoredPaths.                              *)
(***************************************************************************)
WalkPaths ==
    {<<"a.ts">>, <<"Makefile">>, <<"data.csv">>, <<".env.ts">>, <<"app.min.js">>,
     <<".cfg", "c.ts">>, <<"build", "x.py">>, <<"src", "m.ts">>,
     <<"src", "gen", "g.ts">>}

\* what is at a path: nothing, a regular file, a symbolic link, a directory
\* (only a.ts is tried as a link and as an empty directory)
EntryKinds(p) ==
    IF p = <<"a.ts">> THEN {"absent", "file", "link", "dir"} ELSE {"absent", "file"}

DirPattern(name) == [kind |-> "dir", name |-> name]
ExtPattern(ext) == [kind |-> "ext", name |-> ext]

\* the .gitignore and .wbgrepignore of a directory, as sets of patterns
IgnoreFiles(git, wb) == [gitignore |-> git, wbgrepignore |-> wb]

\* the ignore files a tree may have: in the root and in src/
IgnoreConfigs ==
    {[d \in {<<>>, <<"src">>} |->
         IF d = <<>> THEN IgnoreFiles(g, w) ELSE IgnoreFiles(sg, {})] :
       g \in SUBSET {DirPattern("build"), ExtPattern("py")},
       w \in SUBSET {DirPattern("gen")},
       sg \in SUBSET {DirPattern("gen")}}

\* Ignore.ignores(rel) of the `ignore` package, `rel` given without a
\* trailing slash: a directory pattern matches a parent directory of rel, a
\* glob matches rel or a parent directory
ignores(patterns, rel) ==
    \E pat \in patterns :
        \/ pat.kind = "dir" /\ \E i \in 1..(Len(rel) - 1) : rel[i] = pat.name
        \/ pat.kind = "ext" /\ \E i \in 1..Len(rel) : Ext(rel[i]) = pat.name

\* getDirectoryIgnore(dir), lines 186-217: the patterns of both ignore files
getDirectoryIgnore(igs, dir) ==
    IF dir \in DOMAIN igs THEN igs[dir].gitignore \cup igs[dir].wbgrepignore ELSE {}

\* an isIgnored that reads the ignore files of the root only
isIgnoredByRoot(igs, rel) ==
    \/ \E i \in 1..Len(rel) : isIgnored(rel[i])
    \/ ignores(getDirectoryIgnore(igs, <<>>), rel)

\* isIgnored(filePath, root), lines 136-164: the global patterns, then the
\* ignore files of every directory from dirname(filePath) up to the root
isIgnoredBy(igs, rel) ==
    \/ \E i \in 1..Len(rel) : isIgnored(rel[i])
    \/ \E k \in 0..(Len(rel) - 1) :
          ignores(getDirectoryIgnore(igs, SubSeq(rel, 1, k)),
                  SubSeq(rel, k + 1, Len(rel)))

\* scanDirectory, lines 110-130: p is yielded
yields(tree, igs, p) ==
    /\ tree[p] = "file"
    /\ \A k \in 1..Len(p) :
          ~isHidden(p[k]) /\ ~isIgnoredBy(igs, SubSeq(p, 1, k))
    /\ isCodeFile(p[Len(p)])

\* getFiles(dirRoot), as the set of the paths it yields
scanDirectory(tree, igs) == {p \in WalkPaths : yields(tree, igs, p)}

InitWalk ==
    /\ disk = [f \in FileSet |-> Absent]
    /\ files = NoFiles
    /\ dirty = FALSE
    /\ stateFile = NoFiles
    /\ table = {}
    /\ calls = [s \in Slots |-> Idle]
    /\ pass = IdlePass
    /\ lastOp = NoPrior
    /\ ops = 0
    /\ crashes = 0
    /\ IdleWatch
    /\ IdleEmbed
    /\ IdleJournal
    /\ search = NoCall
    /\ chunking = NoCall
    /\ walk \in {[pc |-> "called", tree |-> t, ignoreFiles |-> igs, out |-> {}] :
                    t \in {x \in [WalkPaths -> {"absent", "file", "link", "dir"}] :
                              \A p \in WalkPaths : x[p] \in EntryKinds(p)},
                    igs \in IgnoreConfigs}
    /\ IdleTimer

\* getFiles(root) has been iterated to its end
GetFilesReturn ==
    /\ walk.pc = "called"
    /\ walk' = [walk EXCEPT !.pc = "returned",
                            !.out = scanDirectory(walk.tree, walk.ignoreFiles)]
    /\ UNCHANGED <<disk, indexerVars, ops, crashes, watchVars, embedVars,
                   journalVars, search, chunking, timerVars>>

NextWalk == GetFilesReturn

SpecWalk == InitWalk /\ [][NextWalk]_vars

\* the tree of the call without the entry at p
Without(tree, p) == [tree EXCEPT ![p] = "absent"]

\* C28: the walker emits a path only if it is a regular file, no entry name
\* from the root down to it begins with ".", no global ignore pattern
\* matches it, no .gitignore or .wbgrepignore of a directory from its own up
\* to the root ignores it, and its extension is allowlisted or its basename
\* is a special file name; with `build/` in the root .gitignore, build/x.py
\* is not emitted and what is emitted is the same as without it.
C28_WalkerEmitsOnlyEligible ==
    walk.pc = "returned" =>
        /\ \A p \in walk.out :
              /\ walk.tree[p] = "file"
              /\ \A k \in 1..Len(p) : p[k] \notin HiddenPaths
              /\ \A k \in 1..Len(p) : p[k] \notin IgnoredPaths
              /\ \A k \in 0..(Len(p) - 1) :
                    LET dir == SubSeq(p, 1, k)
                        rel == SubSeq(p, k + 1, Len(p))
                    IN  dir \in DOMAIN walk.ignoreFiles =>
                            /\ ~ignores(walk.ignoreFiles[dir].gitignore, rel)
                            /\ ~ignores(walk.ignoreFiles[dir].wbgrepignore, rel)
              /\ \/ Ext(p[Len(p)]) \in CODE_EXTENSIONS
                 \/ toLowerCase(p[Len(p)]) \in specialFiles
        /\ DirPattern("build") \in walk.ignoreFiles[<<>>].gitignore =>
              /\ <<"build", "x.py">> \notin walk.out
              /\ walk.out = scanDirectory(Without(walk.tree, <<"build", "x.py">>),
                                          walk.ignoreFiles)

\* a tree with build/x.py and `build/` in the root .gitignore, of which the
\* walker emitted a.ts, Makefile and src/m.ts
C28_Witness ==
    /\ walk.pc = "returned"
    /\ walk.tree[<<"build", "x.py">>] = "file"
    /\ DirPattern("build") \in walk.ignoreFiles[<<>>].gitignore
    /\ {<<"a.ts">>, <<"Makefile">>, <<"src", "m.ts">>} \subseteq walk.out

(***************************************************************************)
(* The watch loop over a tree that also has a file the walker does not     *)
(* emit: data.csv, a text file at the root whose extension is not in       *)
(* CODE_EXTENSIONS.  chokidar's ignore list (watch.ts 76-83) names hidden  *)
(* entries and the node_modules, .git, dist, build and .wb-grep            *)
(* directories, so it delivers the events of data.csv.                     *)
(***************************************************************************)
OtherFiles == {"data.csv"}

\* the files whose events the watcher gets in this tree
WatchedFiles == {Files[1]} \cup OtherFiles

\* the initial indexAll has run over the tree
InitWatchTree ==
    /\ disk \in {d \in [FileSet \cup OtherFiles -> {Absent, "A"}] :
                    \A f \in FileSet \ WatchedFiles : d[f] = Absent}
    /\ files = IndexedFiles(disk)
    /\ dirty = FALSE
    /\ stateFile = files
    /\ table = IndexedTable(disk)
    /\ calls = [s \in Slots |-> Idle]
    /\ pass = IdlePass
    /\ lastOp = NoPrior
    /\ ops = 0
    /\ crashes = 0
    /\ pendingChanges = <<>>
    /\ debounceTimer = FALSE
    /\ flushQueue = [s \in Slots |-> <<>>]
    /\ watcher = "open"
    /\ events = 0
    /\ IdleEmbed
    /\ IdleUnits

NextWatchTree ==
    \/ \E f \in WatchedFiles, c \in TextContents : FileChanged(f, c)
    \/ \E f \in WatchedFiles : FileUnlinked(f)
    \/ TimerFires
    \/ \E s \in Slots : DeleteByIdsDone(s)
    \/ \E s \in Slots : BatchEmbedDone(s)
    \/ \E s \in Slots : AddChunksCommit(s)
    \/ \E s \in Slots : AddChunksReturn(s)
    \/ \E s \in Slots : DeleteFileDone(s)
    \/ \E s \in Slots : FlushCollect(s)
    \/ \E s \in Slots : UnlinkReturn(s)
    \/ Sigint
    \/ SigintExit

SpecWatchTree == InitWatchTree /\ [][NextWatchTree]_vars

\* the walker would emit f for a full index (f is a file at the root of a
\* tree without ignore files)
WalkerEmits(f) == ~isHidden(f) /\ ~isIgnored(f) /\ isCodeFile(f)

\* C29: in watch mode only files the walker would emit get reconciled: no
\* event for another file leads to rows in the store or to a journal entry.
C29_WatchIndexesOnlyWalkerFiles ==
    \A f \in DOMAIN disk :
        ~WalkerEmits(f) => f \notin DOMAIN files /\ RowsOf(table, f) = {}

(***************************************************************************)
(* The stats of a full pass (Spec): Indexer.indexAll, lines 172-201.       *)
(***************************************************************************)
RECURSIVE SumChunkCounts(_, _)
SumChunkCounts(fs, S) ==
    IF S = {} THEN 0
    ELSE LET f == CHOOSE g \in S : TRUE
         IN  fs[f].chunkCount + SumChunkCounts(fs, S \ {f})

\* indexAll has gone through its list and saved (line 200): it returns next
PassDone == pass.op = "indexAll" /\ pass.pc = "done"

\* C30: when indexAll returns, every enumerated file was counted in exactly
\* one of indexed, skipped and failed, a result carrying an error as failed;
\* totalChunks is the sum of the chunk counts of the indexed files, which is
\* the number of rows inserted during the pass.
C30_StatsAddUp ==
    PassDone =>
        /\ pass.stats.indexed + pass.stats.skipped + pass.stats.failed = Len(pass.list)
        /\ pass.stats.failed = pass.errored
        /\ pass.stats.indexed = Cardinality(pass.journaled)
        /\ pass.stats.totalChunks = SumChunkCounts(files, pass.journaled)
        /\ pass.stats.totalChunks = pass.inserted

\* a pass over two files: one indexed with two chunks, the other failed
C30_Witness ==
    /\ PassDone
    /\ Len(pass.list) = 2
    /\ pass.stats.indexed = 1 /\ pass.stats.failed = 1
    /\ pass.stats.totalChunks = 2

(***************************************************************************)
(* Reconciling a changed file (indexer.ts 113-158).                        *)
(***************************************************************************)
\* the call went through to line 158
Succeeded(call) ==
    /\ call.op = "indexFile" /\ call.pc = "returned"
    /\ ~call.result.skipped /\ call.result.error = ""

\* the call found a journal entry of its file with another hash than the
\* content's
ChangedSinceJournal(call) ==
    /\ call.filepath \in DOMAIN call.before
    /\ call.before[call.filepath].hash # call.hash

\* C31: after indexFile(f) succeeds on a file whose content hash differs from
\* the hash of its journal entry, no row with one of the entry's previous
\* chunk ids is in the store, the rows of f are exactly the newly minted ids,
\* these are disjoint from the old ids, and the journal entry carries the new
\* hash.
C31_ChangedFileReplaced ==
    \A s \in Slots :
        (Succeeded(calls[s]) /\ ChangedSinceJournal(calls[s])) =>
            LET f == calls[s].filepath
                old == Range(calls[s].before[f].chunkIds)
                new == Range(calls[s].chunkIds)
            IN  /\ old \cap {r.id : r \in table} = {}
                /\ RowIds(table, f) = new
                /\ new \cap old = {}
                /\ f \in DOMAIN files
                /\ files[f].hash = calls[s].hash
                /\ calls[s].hash = computeHash(calls[s].content)

\* a step of the indexFile call in slot s
IndexFileStep(s) ==
    /\ calls[s].op = "indexFile" /\ InProgress(s)
    /\ calls'[s] # calls[s]

\* C32: no step of an indexFile(f) call, whatever the call's outcome, changes
\* the journal entry or the store rows of another filepath g.
C32_OtherFilesUntouched ==
    [][\A s \in Slots :
          IndexFileStep(s) =>
              \A g \in FileSet \ {calls[s].filepath} :
                  /\ EntryOf(files', g) = EntryOf(files, g)
                  /\ RowsOf(table', g) = RowsOf(table, g)]_vars

\* C32 witness: an indexFile call that deleted the old rows of its file and
\* inserted new ones has returned while another file has a journal entry and
\* rows in the store.
C32_Witness ==
    \E s \in Slots :
        /\ Succeeded(calls[s]) /\ calls[s].hasExisting
        /\ \E g \in DOMAIN files \ {calls[s].filepath} : RowsOf(table, g) # {}

(***************************************************************************)
(* Order of the store and journal calls of one indexFile (119-156).        *)
(***************************************************************************)
TableIds(t) == {r.id : r \in t}

\* rows with the old ids of the call's journal entry and rows with the ids
\* the call minted are in the store together
OldAndNewCoexist(call) ==
    /\ Range(call.oldIds) \cap TableIds(table) # {}
    /\ Range(call.chunkIds) \cap TableIds(table) # {}

\* C33: within an indexFile call on a file that has a journal entry, the step
\* that inserts the new rows finds the rows of the entry's old chunk ids
\* already deleted and leaves the journal entry as it is; the step that
\* overwrites the journal entry finds the new rows inserted; and after no step
\* of the call do rows of the old ids and rows of the new ids coexist.
C33_DeleteInsertJournalOrder ==
    [][\A s \in Slots :
          (IndexFileStep(s) /\ calls[s].hasExisting) =>
              LET f == calls[s].filepath
                  new == Range(calls'[s].chunkIds)
              IN  /\ (new \cap TableIds(table') # {} /\ new \cap TableIds(table) = {})
                     => /\ Range(calls[s].oldIds) \cap TableIds(table) = {}
                        /\ EntryOf(files', f) = EntryOf(files, f)
                  /\ EntryOf(files', f) # EntryOf(files, f)
                     => /\ new # {} /\ new \subseteq TableIds(table)
                        /\ files'[f].chunkIds = calls[s].chunkIds
                  /\ ~OldAndNewCoexist(calls[s])']_vars

\* C33 witness: a call on a file with a journal entry has inserted its new
\* rows, the rows of the old ids are gone, and the journal entry is still the
\* old one.
C33_Witness ==
    \E s \in Slots :
        /\ calls[s].op = "indexFile" /\ calls[s].pc = "added"
        /\ calls[s].hasExisting /\ calls[s].rowsBefore # {}
        /\ Range(calls[s].chunkIds) \subseteq TableIds(table)
        /\ Range(calls[s].oldIds) \cap TableIds(table) = {}
        /\ files[calls[s].filepath].chunkIds = calls[s].oldIds

(***************************************************************************)
(* The debounce of watch.ts 88-124 with its time.  The clock counts ms     *)
(* from the opening of the watcher and moves in steps of TickMs; a timer   *)
(* fires at its due time or later, never before.  Every batchEmbed and     *)
(* every store call resolves, and no file is removed.                      *)
(***************************************************************************)
WATCH_DEBOUNCE_MS == 500
TickMs == 250       \* the step of the clock
MaxTicks == 6       \* steps of the clock in one behaviour

\* a flush that copies the pending set and does not clear it
takeSnapshotKeep(pending) ==
    [changedFiles |-> pending, pendingChanges |-> pending]

\* lines 94-95: Array.from(pendingChanges), pendingChanges.clear()
takeSnapshot(pending) ==
    [changedFiles |-> pending, pendingChanges |-> <<>>]

\* a timer that is left alone while it is armed
scheduleTimerOnce(armed, due, t) ==
    IF armed THEN due ELSE t + WATCH_DEBOUNCE_MS

\* lines 119-120: clearTimeout, setTimeout(processPendingChanges, 500)
scheduleTimer(armed, due, t) == t + WATCH_DEBOUNCE_MS

\* the paths of `q` the loop of lines 97-112 visits up to its next await
VisitedOf(q) ==
    LET rest == SkipFiltered(q)
    IN  IF rest = <<>> THEN q ELSE SubSeq(q, 1, Len(q) - Len(rest) + 1)

\* the path it calls indexFile on
IndexedOf(q) ==
    LET rest == SkipFiltered(q)
    IN  IF rest = <<>> THEN <<>> ELSE <<Head(rest)>>

InitDebounce ==
    /\ disk \in [FileSet -> {Absent, "A"}]
    /\ files = IndexedFiles(disk)
    /\ dirty = FALSE
    /\ stateFile = files
    /\ table = IndexedTable(disk)
    /\ calls = [s \in Slots |-> Idle]
    /\ pass = IdlePass
    /\ lastOp = NoPrior
    /\ ops = 0
    /\ crashes = 0
    /\ pendingChanges = <<>>
    /\ debounceTimer = FALSE
    /\ flushQueue = [s \in Slots |-> <<>>]
    /\ watcher = "open"
    /\ events = 0
    /\ IdleEmbed
    /\ IdleJournal
    /\ search = NoCall
    /\ chunking = NoCall
    /\ walk = NoCall
    /\ clock = 0
    /\ timerDue = 0
    /\ flushLog = [s \in Slots |-> NoFlush]
    /\ eventLog = [lastAt |-> 0, arrived |-> [f \in FileSet |-> 0],
                   taken |-> [f \in FileSet |-> 0]]

debounceRest == <<embedVars, journalVars, search, chunking, walk>>

\* time passes
Tick ==
    /\ clock + TickMs <= MaxTicks * TickMs
    /\ clock' = clock + TickMs
    /\ UNCHANGED <<disk, indexerVars, ops, crashes, watchVars, timerDue, flushLog,
                   eventLog, debounceRest>>

\* watcher.on("add" | "change", scheduleUpdate), lines 117-124
ChangeEvent(f, c) ==
    /\ watcher = "open"
    /\ events < MaxEvents
    /\ events' = events + 1
    /\ c # disk[f]
    /\ disk' = [disk EXCEPT ![f] = c]
    /\ pendingChanges' = scheduleUpdate(pendingChanges, f)
    /\ timerDue' = scheduleTimer(debounceTimer, timerDue, clock)
    /\ debounceTimer' = TRUE
    /\ eventLog' = [eventLog EXCEPT !.lastAt = clock, !.arrived[f] = @ + 1]
    /\ UNCHANGED <<indexerVars, ops, crashes, flushQueue, watcher, clock, flushLog,
                   debounceRest>>

\* the timer fires: processPendingChanges, lines 91-105
TimeoutFires ==
    /\ Running
    /\ debounceTimer /\ clock >= timerDue
    /\ debounceTimer' = FALSE
    /\ Len(pendingChanges) > 0
    /\ HasFreeSlot
    /\ LET snap == takeSnapshot(pendingChanges)
           s == FreeSlot
       IN  /\ pendingChanges' = snap.pendingChanges
           /\ FlushGoto(s, snap.changedFiles)
           /\ flushLog' = [flushLog EXCEPT ![s] =
                  [changedFiles |-> snap.changedFiles,
                   visited |-> VisitedOf(snap.changedFiles),
                   indexed |-> IndexedOf(snap.changedFiles),
                   startedAt |-> clock, lastEventAt |-> eventLog.lastAt,
                   arrived |-> eventLog.arrived,
                   takenBefore |-> eventLog.taken]]
           /\ eventLog' = [eventLog EXCEPT !.taken =
                  [f \in FileSet |-> IF f \in Range(snap.changedFiles)
                                     THEN eventLog.arrived[f]
                                     ELSE eventLog.taken[f]]]
    /\ UNCHANGED <<disk, files, table, pass, lastOp, ops, crashes, watcher, events,
                   clock, timerDue, debounceRest>>

\* line 105 resolves: the loop goes on, up to the save of line 114
FlushNext(s) ==
    /\ Running
    /\ calls[s].owner = "flush" /\ calls[s].pc = "returned"
    /\ FlushGoto(s, flushQueue[s])
    /\ flushLog' = [flushLog EXCEPT
           ![s].visited = @ \o VisitedOf(flushQueue[s]),
           ![s].indexed = @ \o IndexedOf(flushQueue[s])]
    /\ UNCHANGED <<disk, files, table, pass, lastOp, ops, crashes, pendingChanges,
                   debounceTimer, watcher, events, clock, timerDue, eventLog,
                   debounceRest>>

NextDebounce ==
    \/ Tick
    \/ \E f \in FileSet, c \in TextContents : ChangeEvent(f, c)
    \/ TimeoutFires
    \/ \E s \in Slots :
        \/ DeleteByIdsDone(s)
        \/ BatchEmbedDone(s)
        \/ AddChunksCommit(s)
        \/ AddChunksReturn(s)
        \/ FlushNext(s)

SpecDebounce == InitDebounce /\ [][NextDebounce]_vars

IsPrefix(a, b) == Len(a) <= Len(b) /\ SubSeq(b, 1, Len(a)) = a
Count(f, q) == Cardinality({i \in DOMAIN q : q[i] = f})

\* the flush of slot s has run to its end
FlushEnded(s) == calls[s].op = "idle" /\ flushLog[s].changedFiles # <<>>

PassFiles == Range(WalkOrder)

InitPass ==
    /\ disk \in [PassFiles -> {"A", "empty"}]
    /\ files = NoFiles
    /\ dirty = FALSE
    /\ stateFile = NoFiles
    /\ table = {}
    /\ calls = [s \in Slots |-> Idle]
    /\ pass = IdlePass
    /\ lastOp = NoPrior
    /\ ops = 0
    /\ crashes = 0
    /\ IdleWatch
    /\ IdleEmbed
    /\ IdleUnits

NextPass ==
    \/ \E f \in PassFiles : Edit(f, "B")
    \/ \E clear \in BOOLEAN : ApiIndexAll(clear)
    \/ \E s \in Slots :
        \/ DeleteByIdsDone(s)
        \/ DeleteByIdsFail(s)
        \/ BatchEmbedDone(s)
        \/ BatchEmbedFail(s)
        \/ AddChunksCommit(s)
        \/ AddChunksFail(s)
        \/ AddChunksReturn(s)
    \/ IndexAllCleared
    \/ IndexAllClearFail
    \/ \E s \in Slots : IndexAllCollect(s)
    \/ IndexAllReturn

SpecPass == InitPass /\ [][NextPass]_vars

\* the number of files of the list whose result the loop has tallied
Collected == IF pass.pc = "done" THEN Len(pass.list) ELSE pass.i - 1

\* the files the pass reconciled with success whose entry state.json lacks
Unpersisted ==
    {f \in pass.journaled : f \notin DOMAIN stateFile \/ stateFile[f] # files[f]}

InPass == pass.op = "indexAll" /\ pass.pc \in {"loop", "done"}

\* C36: during indexAll the file being reconciled is the one at the loop's
\* position in the walker's list, after every batchSize-th file and at the
\* end state.json holds the entry of every file the pass has reconciled with
\* success so far, and at any file boundary at most batchSize - 1 of these
\* files are not in state.json.
C36_BatchSaves ==
    InPass =>
        /\ pass.list = getFiles(disk)
        /\ pass.pc = "loop" =>
              /\ pass.i \in DOMAIN pass.list
              /\ calls[1].op = "indexFile" /\ calls[1].owner = "pass"
              /\ calls[1].filepath = pass.list[pass.i]
        /\ pass.journaled \subseteq {pass.list[j] : j \in 1..Collected}
        /\ (pass.pc = "done" \/ Collected % batchSize = 0) => Unpersisted = {}
        /\ Cardinality(Unpersisted) <= batchSize - 1

\* C36 witness: the loop is at its third file, the two files before it were
\* reconciled with success and the save of line 196 has written their entries.
C36_Witness ==
    /\ InPass /\ pass.pc = "loop" /\ pass.i = batchSize + 1
    /\ Cardinality(pass.journaled) = batchSize
    /\ pass.journaled \subseteq DOMAIN stateFile
    /\ Unpersisted = {}
    /\ ~dirty

(***************************************************************************)
(* Indexer.deleteFile (indexer.ts 204-211).                                *)
(***************************************************************************)
\* the step in which the deleteFile call of slot s returns
DeleteFileReturns(s) ==
    /\ calls'[s] # calls[s]
    /\ calls'[s].op = "deleteFile" /\ calls'[s].pc = "returned"
    /\ calls'[s].result.error = ""

\* C37: when deleteFile(p) returns on a path that had a journal entry, no row
\* with an id of that entry's chunkIds is in the store, the journal is the
\* old one without the entry of p, and state.json holds that journal; when it
\* returns on a path without a journal entry, the store, the journal and
\* state.json are what they were.
C37_DeleteFile ==
    [][\A s \in Slots :
          DeleteFileReturns(s) =>
              IF calls'[s].hasExisting
              THEN /\ Range(calls'[s].oldIds) \cap TableIds(table') = {}
                   /\ calls'[s].filepath \notin DOMAIN files'
                   /\ \A g \in DOMAIN files \ {calls'[s].filepath} :
                         g \in DOMAIN files' /\ files'[g] = files[g]
                   /\ stateFile' = files' /\ ~dirty'
              ELSE /\ table' = table /\ files' = files
                   /\ stateFile' = stateFile /\ dirty' = dirty]_vars

\* C37 witness: deleteFile has returned on a path that had a journal entry
\* with chunk ids, while another path keeps its entry and its rows.
C37_Witness ==
    \E s \in Slots :
        /\ calls[s].op = "deleteFile" /\ calls[s].pc = "returned"
        /\ calls[s].result.error = ""
        /\ calls[s].hasExisting /\ calls[s].oldIds # <<>>
        /\ calls[s].filepath \notin DOMAIN files
        /\ stateFile = files
        /\ \E g \in DOMAIN files : RowsOf(table, g) # {}

Step == DEFAULT_MAX_CHUNK_LINES - DEFAULT_OVERLAP_LINES

\* the lines chunks j and k have in common
SharedLines(j, k) ==
    Cardinality((chunking.chunks[j].lineStart..chunking.chunks[j].lineEnd)
                \cap (chunking.chunks[k].lineStart..chunking.chunks[k].lineEnd))

C40_ErrorKeepsRows ==
    \A s \in Slots :
        (ReturnedIndexFile(s) /\ calls[s].result.error # "") =>
            RowsOf(table, calls[s].filepath) = calls[s].rowsBefore
====
